---- MODULE Spec2Model ----
(***************************************************************************)
(* A state-machine model of plenoptic's frequency-domain steerable         *)
(* pyramid, Steerable_Pyramid_Freq                                         *)
(* (src/plenoptic/simulate/canonical_computations/steerable_pyramid_freq.py)*)
(*                                                                         *)
(* Tensors are not modelled by their floating-point entries.  A spectrum   *)
(* or coefficient band is a symbolic term: its spatial shape together with *)
(* the sequence of operations (masks, crops, gains, transforms) the code   *)
(* applied to the input image to obtain it.  Two equal terms denote equal  *)
(* tensors because every operation is deterministic.                       *)
(***************************************************************************)
EXTENDS Integers, Sequences, FiniteSets, TLC

VARIABLES
    args,        \* the arguments of the pending / last constructor call
    built,       \* "new" before __init__ ran, then "ok" or "raised"
    self,        \* the attributes of the pyramid object
    pyr_coeffs,  \* the OrderedDict the caller holds from the last forward()
    call,        \* the last method call: its name, outcome and warnings
    inp,         \* the arguments of the last method call
    recon,       \* the value returned by the last recon_pyr()
    packed,      \* (pyr_tensor, pyr_info) from the last convert_pyr_to_tensor()
    unpacked,    \* the dictionary from the last convert_tensor_to_pyr()
    steered,     \* (resteered_coeffs, resteering_weights) from the last steer_coeffs()
    callers,     \* for callers sharing the pyramid: each one's call in progress
    mock         \* the grid the constructor's subsampling step is applied to

vars ==
    <<args, built, self, pyr_coeffs, call, inp, recon, packed, unpacked, steered, callers,
      mock>>

(***************************************************************************)
(* Bounds of the model.                                                    *)
(***************************************************************************)
\* image sides 1..MaxSide (and 256) are tried by the constructor spec
MaxSide == 8
\* integer heights -1..MaxHeightArg are tried
MaxHeightArg == 2
\* orders within OrderSlack of either end of [MinOrder, MaxOrder] are tried
OrderSlack == 2
\* twidth arguments are the rationals k / TwidthDen ...
TwidthDen == 2
\* ... for k in -1 .. MaxTwidthNum
MaxTwidthNum == 3
\* integer selectors -1..MaxSelInt are tried by forward
MaxSelInt == 1
\* selector lists of at most MaxSelLen elements are tried
MaxSelLen == 2
\* band selectors -1..MaxBandSel are tried by recon_pyr
MaxBandSel == 2

(***************************************************************************)
(* Program constants.                                                      *)
(***************************************************************************)
MinOrder == 1
MaxOrder == 15

(***************************************************************************)
(* Vocabulary: selectors, keys, shapes.                                    *)
(***************************************************************************)
\* A selector is a Python int or a Python str.
IntSel(n) == [isint |-> TRUE, n |-> n, s |-> ""]
StrSel(s) == [isint |-> FALSE, n |-> 0, s |-> s]

residual_highpass == "residual_highpass"
residual_lowpass == "residual_lowpass"

\* A dictionary key: <<name>> for a residual, <<scale, band>> for a band.
ResKey(name) == <<name>>
BandKey(i, b) == <<i, b>>

Min(a, b) == IF a <= b THEN a ELSE b
Max(a, b) == IF a >= b THEN a ELSE b

\* range(n): the integers 0 .. n-1 in increasing order (empty when n <= 0)
Range(n) == [i \in 1..Max(n, 0) |-> i - 1]

RECURSIVE Pow2(_)
Pow2(k) == IF k <= 0 THEN 1 ELSE 2 * Pow2(k - 1)

\* np.floor(np.log2(n)) for an integer n >= 1
RECURSIVE FloorLog2(_)
FloorLog2(n) == IF n < 2 THEN 0 ELSE 1 + FloorLog2(n \div 2)

\* np.ceil(a / b) for integers a, b with b > 0
CeilDiv(a, b) == -((-a) \div b)

(***************************************************************************)
(* __init__                                                                *)
(***************************************************************************)
\* a variant of MaxHt: a height limit one level higher than the source's (floor(log2(min)) - 1)
MaxHtOffByOne(image_shape) == FloorLog2(Min(image_shape[1], image_shape[2])) - 1

\* line 108: max_ht = floor(log2(min(image_shape))) - 2
MaxHt(image_shape) == FloorLog2(Min(image_shape[1], image_shape[2])) - 2

\* lines 109-115: does the height argument make the constructor raise?
HeightRaises(a) == ~a.height_auto /\ a.height > MaxHt(a.image_shape)

\* lines 109-115: num_scales
NumScales(a) == IF a.height_auto THEN MaxHt(a.image_shape) ELSE a.height

\* line 117: is the order outside the accepted range?
OrderOutOfRange(order) == order > MaxOrder \/ order <= 0

\* a variant of ClampOrder: a truncation that caps the order at MaxOrder but leaves orders <= 0 alone
ClampOrderHighOnly(order) == IF order > MaxOrder THEN MaxOrder ELSE order

\* lines 117-120: the order after truncation
ClampOrder(order) ==
    IF OrderOutOfRange(order) THEN Min(Max(order, MinOrder), MaxOrder) ELSE order

\* a variant of NumOrientations: as many orientations as the order, without the + 1
NumOrientationsNoPlusOne(order) == order

\* line 121
NumOrientations(order) == order + 1

\* line 123: the test that triggers the twidth warning; tw is k, for k / TwidthDen
TwidthWarns(tw) == tw <= 0

\* lines 123-126: the transition width handed to raised_cosine (an integer)
UsedTwidth(tw) == (IF TwidthWarns(tw) THEN TwidthDen ELSE tw) \div TwidthDen

\* lines 97-100
FftNorm(tight_frame) == IF tight_frame THEN "ortho" ELSE "backward"

\* lines 169-170: coarse to fine
RECURSIVE Reversed(_)
Reversed(s) == IF s = <<>> THEN <<>> ELSE Reversed(Tail(s)) \o <<Head(s)>>

Scales(num_scales) ==
    <<StrSel(residual_lowpass)>>
        \o Reversed([i \in 1..Max(num_scales, 0) |-> IntSel(Range(num_scales)[i])])
        \o <<StrSel(residual_highpass)>>

\* a variant of LoBox1: a box that starts at the first entry of the axis
LoBox1FromZero(d) ==
    LET lodims == CeilDiv(2 * d - 1, 4)
    IN <<0, lodims>>

\* a variant of LoBox1: a box of floor(d / 2) entries
LoBox1Floor(d) ==
    LET ctr == CeilDiv(2 * d + 1, 4)
        lodims == d \div 2
        loctr == CeilDiv(2 * lodims + 1, 4)
        lostart == ctr - loctr
    IN <<lostart, lostart + lodims>>

\* lines 216-220, for one axis of length d: <<lostart, loend>>
LoBox1(d) ==
    LET ctr == CeilDiv(2 * d + 1, 4)
        lodims == CeilDiv(2 * d - 1, 4)
        loctr == CeilDiv(2 * lodims + 1, 4)
        lostart == ctr - loctr
    IN <<lostart, lostart + lodims>>

\* a[lo:hi] on an axis of length d (non-negative indices): its length
SliceLen(d, lo, hi) == Max(0, Min(hi, d) - Min(lo, d))

\* lines 207-221: the entry appended to _loindices: <<lostart, loend>>, each a pair
LoIndex(downsample, image_shape, dims) ==
    IF ~downsample
    THEN <<(<<0, 0>>), image_shape>>
    ELSE <<(<<LoBox1(dims[1])[1], LoBox1(dims[2])[1]>>),
           (<<LoBox1(dims[1])[2], LoBox1(dims[2])[2]>>)>>

\* lines 224-230: the shape of lodft, log_rad and angle after the crop
Cropped(dims, box) ==
    <<SliceLen(dims[1], box[1][1], box[2][1]), SliceLen(dims[2], box[1][2], box[2][2])>>

\* no grid is being subsampled
NoMock == [from |-> <<0, 0>>, lostart |-> <<0, 0>>, loend |-> <<0, 0>>, dims |-> <<0, 0>>]

\* the grid of a mock image of shape d, before the loop
MockImage(d) == [NoMock EXCEPT !.dims = d]

\* lines 215-230: one subsampling step of the constructor's loop on the mock
\* spectrum: the box for the current dims, then the crop of lodft to that box
SubsampleLowpass ==
    /\ mock.dims # <<0, 0>>
    /\ LET box == LoIndex(TRUE, mock.dims, mock.dims)
       IN mock' = [from |-> mock.dims, lostart |-> box[1], loend |-> box[2],
                   dims |-> Cropped(mock.dims, box)]
    /\ UNCHANGED <<args, built, self, pyr_coeffs, call, inp, recon, packed, unpacked,
                   steered, callers>>

\* a variant of AngleMask: a complex pyramid whose reconstruction profile is doubled and truncated too
AngleMaskSameBothWays(is_complex, forward, i, b, dims) ==
    [mask |-> IF forward THEN "anglemask" ELSE "anglemask_recon",
     scale |-> i, band |-> b, shape |-> dims,
     factor |-> IF is_complex THEN 2 ELSE 1,
     truncated |-> is_complex]

\* lines 182-190: the angular profile behind a mask
AngleMask(is_complex, forward, i, b, dims) ==
    [mask |-> IF forward THEN "anglemask" ELSE "anglemask_recon",
     scale |-> i, band |-> b, shape |-> dims,
     factor |-> IF is_complex /\ forward THEN 2 ELSE 1,
     truncated |-> is_complex /\ forward]

RadialMask(name, i, dims) ==
    [mask |-> name, scale |-> i, band |-> 0, shape |-> dims,
     factor |-> 1, truncated |-> FALSE]

\* lines 177-232: the per-scale loop; m accumulates the mask lists, dims is the
\* shape of lodft / log_rad / angle entering iteration i
RECURSIVE BuildScales(_, _, _, _, _)
BuildScales(a, num_scales, num_orientations, i, st) ==
    IF i >= num_scales THEN st
    ELSE
        LET dims == st.dims
            box == LoIndex(a.downsample, a.image_shape, dims)
            lodims == IF a.downsample THEN Cropped(dims, box) ELSE dims
            angles(fwd) == [o \in 1..num_orientations |->
                                AngleMask(a.is_complex, fwd, i, o - 1, dims)]
        IN BuildScales(a, num_scales, num_orientations, i + 1,
             [dims |-> lodims,
              himasks |-> Append(st.himasks, RadialMask("himask", i, dims)),
              lomasks |-> Append(st.lomasks, RadialMask("lomask", i, lodims)),
              anglemasks |-> Append(st.anglemasks, angles(TRUE)),
              anglemasks_recon |-> Append(st.anglemasks_recon, angles(FALSE)),
              loindices |-> Append(st.loindices, box)])

NoMasks(image_shape) ==
    [dims |-> image_shape, himasks |-> <<>>, lomasks |-> <<>>, anglemasks |-> <<>>,
     anglemasks_recon |-> <<>>, loindices |-> <<>>]

\* the attributes of an object on which __init__ has not completed
NoPyramid ==
    [image_shape |-> <<0, 0>>, num_scales |-> 0, order |-> 0, num_orientations |-> 0,
     twidth |-> 0, is_complex |-> FALSE, downsample |-> FALSE, tight_frame |-> FALSE,
     fft_norm |-> "", scales |-> <<>>,
     lo0mask |-> RadialMask("lo0mask", 0, <<0, 0>>),
     hi0mask |-> RadialMask("hi0mask", 0, <<0, 0>>),
     himasks |-> <<>>, lomasks |-> <<>>, anglemasks |-> <<>>,
     anglemasks_recon |-> <<>>, loindices |-> <<>>,
     pyr_size |-> <<>>]

OddWarning == "Reconstruction will not be perfect with odd-sized images"
OrderWarning == "order must be an integer in the range [1,15]. Truncating."
TwidthWarning == "twidth must be positive. Setting to 1."

\* a variant of InitWarnings: the warnings without the one about odd image sides
InitWarningsSilentOnOdd(a) ==
    (IF OrderOutOfRange(a.order) THEN {OrderWarning} ELSE {})
        \cup (IF TwidthWarns(a.twidth) THEN {TwidthWarning} ELSE {})

\* lines 90-92, 117-119, 123-124: the warnings a completed constructor emitted
InitWarnings(a) ==
    (IF a.image_shape[1] % 2 # 0 \/ a.image_shape[2] % 2 # 0 THEN {OddWarning} ELSE {})
        \cup (IF OrderOutOfRange(a.order) THEN {OrderWarning} ELSE {})
        \cup (IF TwidthWarns(a.twidth) THEN {TwidthWarning} ELSE {})

\* lines 81-235: the object a completed constructor leaves
NewPyramid(a) ==
    LET num_scales == NumScales(a)
        order == ClampOrder(a.order)
        num_orientations == NumOrientations(order)
        m == BuildScales(a, num_scales, num_orientations, 0, NoMasks(a.image_shape))
    IN [image_shape |-> a.image_shape, num_scales |-> num_scales, order |-> order,
        num_orientations |-> num_orientations, twidth |-> UsedTwidth(a.twidth),
        is_complex |-> a.is_complex, downsample |-> a.downsample,
        tight_frame |-> a.tight_frame, fft_norm |-> FftNorm(a.tight_frame),
        scales |-> Scales(num_scales),
        lo0mask |-> RadialMask("lo0mask", 0, a.image_shape),
        hi0mask |-> RadialMask("hi0mask", 0, a.image_shape),
        himasks |-> m.himasks, lomasks |-> m.lomasks, anglemasks |-> m.anglemasks,
        anglemasks_recon |-> m.anglemasks_recon, loindices |-> m.loindices,
        pyr_size |-> <<>>]

NoCall == [op |-> "", outcome |-> "", warnings |-> {}, computed |-> 0]
NoInput ==
    [scales |-> <<>>, scales_type |-> "", x |-> [id |-> 0, ndim |-> 0, nch |-> 0, dtype |-> ""],
     coeffs |-> <<>>, keys |-> {}, levels_type |-> "", levels |-> <<>>, bands_type |-> "",
     bands |-> <<>>, twidth |-> 0, split_complex |-> FALSE, angles |-> 0]
NoRecon == <<>>
NoPacked == <<>>
NoUnpacked == <<>>
NoSteered == <<>>

\* Steerable_Pyramid_Freq.__init__(image_shape, height, order, twidth, ...)
Construct ==
    /\ built = "new"
    /\ IF HeightRaises(args)
       THEN /\ built' = "raised"
            /\ self' = self
            /\ call' = [NoCall EXCEPT !.op = "__init__", !.outcome = "Exception",
                            !.warnings = InitWarnings(args) \ {OrderWarning, TwidthWarning}]
       ELSE /\ built' = "ok"
            /\ self' = NewPyramid(args)
            /\ call' = [NoCall EXCEPT !.op = "__init__", !.outcome = "ok",
                            !.warnings = InitWarnings(args)]
    /\ UNCHANGED <<args, pyr_coeffs, inp, recon, packed, unpacked, steered, callers, mock>>

(***************************************************************************)
(* forward                                                                 *)
(***************************************************************************)
\* A tensor is a term: the image it was computed from (its identity, its number
\* of channels nch = x.shape[1] and whether it holds 64-bit floats), its spatial
\* shape, the operations applied so far, and whether every product so far
\* combined arrays of one shape.
Op(f, i, b) == [f |-> f, i |-> i, b |-> b]

Apply(t, op) == [t EXCEPT !.ops = Append(t.ops, op)]

\* t * mask (elementwise; the shapes must agree)
Mul(t, m) ==
    [t EXCEPT !.ops = Append(t.ops, Op(m.mask, m.scale, m.band)),
              !.ok = t.ok /\ m.shape = t.shape]

\* t[:, :, lostart[0]:loend[0], lostart[1]:loend[1]]
Crop(t, i, box) ==
    [t EXCEPT !.ops = Append(t.ops, Op("crop", i, 0)), !.shape = Cropped(t.shape, box)]

\* `name in scales` and `i in scales` for a list of selectors
HasStr(scales, name) ==
    \E j \in 1..Len(scales) : ~scales[j].isint /\ scales[j].s = name
HasInt(scales, i) ==
    \E j \in 1..Len(scales) : scales[j].isint /\ scales[j].n = i

\* lines 321-324: the assertion on the integer selectors fails
ScaleIntsOutOfRange(num_scales, scales) ==
    \E j \in 1..Len(scales) :
        scales[j].isint /\ (scales[j].n >= num_scales \/ scales[j].n < 0)

\* lines 333-334: the centred spectrum of x
Imdft(x, image_shape) ==
    [x |-> x.id, nch |-> x.nch, double |-> x.dtype = "float64",
     shape |-> image_shape, ok |-> TRUE,
     ops |-> <<Op("fft2", 0, 0), Op("fftshift", 0, 0)>>]

\* lines 339-341, 413-415: back to the image domain, real part kept
RealImage(dft) ==
    Apply(Apply(Apply(dft, Op("ifftshift", 0, 0)), Op("ifft2", 0, 0)), Op("real", 0, 0))

\* complex numbers with integer parts, as <<re, im>>
CMul(a, b) == <<a[1] * b[1] - a[2] * b[2], a[1] * b[2] + a[2] * b[1]>>

\* np.power(c, n) for an integer n >= 0: repeated multiplication
RECURSIVE CPow(_, _)
CPow(c, n) == IF n <= 0 THEN <<1, 0>> ELSE CMul(c, CPow(c, n - 1))

\* a variant of ComplexConst: the constant (+i)^order whatever the direction
ComplexConstOneSign(sign, order) == CPow(<<0, 1>>, order)

\* lines 363, 813: np.power(complex(0, sign), order), sign -1 in forward and +1
\* in _recon_levels
ComplexConst(sign, order) == CPow(<<0, sign>>, order)

\* lines 362-381: the band of orientation b at scale i
Band(p, lodft, i, b) ==
    LET banddft == Mul(Mul(Apply(lodft, Op("complex_const", -1, p.order)),
                           p.anglemasks[i + 1][b + 1]), p.himasks[i + 1])
        band == Apply(Apply(banddft, Op("ifftshift", 0, 0)), Op("ifft2", 0, 0))
    IN IF ~p.is_complex THEN Apply(band, Op("real", 0, 0))
       ELSE IF p.tight_frame THEN Apply(band, Op("div_sqrt2", 0, 0))
       ELSE band

\* lines 353-382: the entries scale i adds to the dictionary
Bands(p, lodft, i) ==
    [o \in 1..p.num_orientations |-> <<BandKey(i, o - 1), Band(p, lodft, i, o - 1)>>]

\* a variant of NextLodft: a lodft that is doubled whenever it is not downsampled, tight frame or not
NextLodftAlwaysDoubled(p, lodft, i, scales) ==
    IF ~p.downsample
    THEN Apply(Mul(lodft, p.lomasks[i + 1]), Op("mul2", 0, 0))
    ELSE Mul(Crop(lodft, i, p.loindices[i + 1]), p.lomasks[i + 1])

\* a variant of NextLodft: a lodft that is advanced only at the scales that were selected
NextLodftOnlyIfSelected(p, lodft, i, scales) ==
    IF ~HasInt(scales, i) THEN lodft
    ELSE IF ~p.downsample
    THEN LET l == Mul(lodft, p.lomasks[i + 1])
         IN IF p.fft_norm # "ortho" THEN Apply(l, Op("mul2", 0, 0)) ELSE l
    ELSE Mul(Crop(lodft, i, p.loindices[i + 1]), p.lomasks[i + 1])

\* lines 384-409: lodft after scale i
NextLodft(p, lodft, i, scales) ==
    IF ~p.downsample
    THEN LET l == Mul(lodft, p.lomasks[i + 1])
         IN IF p.fft_norm # "ortho" THEN Apply(l, Op("mul2", 0, 0)) ELSE l
    ELSE Mul(Crop(lodft, i, p.loindices[i + 1]), p.lomasks[i + 1])

\* lines 347-409: the loop over the scales, from scale i on; st holds lodft and
\* the dictionary so far
RECURSIVE ForwardScales(_, _, _, _)
ForwardScales(p, scales, i, st) ==
    IF i >= p.num_scales THEN st
    ELSE ForwardScales(p, scales, i + 1,
            [lodft |-> NextLodft(p, st.lodft, i, scales),
             coeffs |-> IF HasInt(scales, i)
                        THEN st.coeffs \o Bands(p, st.lodft, i)
                        ELSE st.coeffs])

\* line 319-320: an empty selection stands for self.scales
EffectiveScales(p, scales) == IF scales = <<>> THEN p.scales ELSE scales

\* a variant of ForwardCoeffs: a dictionary filled in the order the selectors were given, one item per mention
ForwardCoeffsListOrder(p, x, scales) ==
    LET imdft == Imdft(x, p.image_shape)
        all == ForwardScales(p, p.scales, 0,
                             [lodft |-> Mul(imdft, p.lo0mask), coeffs |-> <<>>])
        item(sel) ==
            IF ~sel.isint
            THEN IF sel.s = residual_highpass
                 THEN <<(<<ResKey(residual_highpass), RealImage(Mul(imdft, p.hi0mask))>>)>>
                 ELSE IF sel.s = residual_lowpass
                 THEN <<(<<ResKey(residual_lowpass), RealImage(all.lodft)>>)>>
                 ELSE <<>>
            ELSE SelectSeq(all.coeffs, LAMBDA kv : kv[1][1] = sel.n)
        F[j \in 0..Len(scales)] == IF j = 0 THEN <<>> ELSE F[j - 1] \o item(scales[j])
    IN F[Len(scales)]

\* lines 336-418: the dictionary, as the sequence of its <<key, value>> items
ForwardCoeffs(p, x, scales) ==
    LET imdft == Imdft(x, p.image_shape)
        hi == IF HasStr(scales, residual_highpass)
              THEN <<(<<ResKey(residual_highpass), RealImage(Mul(imdft, p.hi0mask))>>)>>
              ELSE <<>>
        st == ForwardScales(p, scales, 0,
                            [lodft |-> Mul(imdft, p.lo0mask), coeffs |-> hi])
    IN IF HasStr(scales, residual_lowpass)
       THEN Append(st.coeffs, <<ResKey(residual_lowpass), RealImage(st.lodft)>>)
       ELSE st.coeffs

\* lines 342, 382, 416: pyr_size after the call
RECURSIVE RecordSizes(_, _)
RecordSizes(pyr_size, coeffs) ==
    IF coeffs = <<>> THEN pyr_size
    ELSE RecordSizes((Head(coeffs)[1] :> Head(coeffs)[2].shape) @@ pyr_size, Tail(coeffs))

\* a variant of Recorded: the sizes are recorded and lo0mask is doubled in place
RecordedAndRescaled(p, coeffs) ==
    [p EXCEPT !.pyr_size = RecordSizes(p.pyr_size, coeffs),
              !.lo0mask.factor = 2 * @]

\* lines 342, 382, 416: the object after forward recorded the sizes of the items
\* coeffs; nothing else of it is written
Recorded(p, coeffs) == [p EXCEPT !.pyr_size = RecordSizes(p.pyr_size, coeffs)]

\* lines 317-318: scales is neither a list nor a tuple
NotAList(scales_type) == scales_type \notin {"list", "tuple"}

\* line 331: x is not a batch of images
NotFourD(x) == x.ndim # 4

\* a variant of ForwardRaises: a validation without the 4-d assertion on x
ForwardRaisesNoDimCheck(p, x, scales_type, scales) ==
    IF NotAList(scales_type) THEN "Exception"
    ELSE IF ScaleIntsOutOfRange(p.num_scales, EffectiveScales(p, scales))
    THEN "AssertionError"
    ELSE ""

\* lines 316-331: the exception forward raises before computing anything, or ""
ForwardRaises(p, x, scales_type, scales) ==
    IF NotAList(scales_type) THEN "Exception"
    ELSE IF ScaleIntsOutOfRange(p.num_scales, EffectiveScales(p, scales))
    THEN "AssertionError"
    ELSE IF NotFourD(x) THEN "AssertionError"
    ELSE ""

\* Steerable_Pyramid_Freq.forward(x, scales)
Forward(x, scales_type, scales) ==
    /\ built = "ok"
    /\ inp' = [NoInput EXCEPT !.x = x, !.scales_type = scales_type, !.scales = scales]
    /\ LET err == ForwardRaises(self, x, scales_type, scales)
           coeffs == ForwardCoeffs(self, x, EffectiveScales(self, scales))
       IN IF err # ""
          THEN /\ call' = [NoCall EXCEPT !.op = "forward", !.outcome = err]
               /\ pyr_coeffs' = <<>>
               /\ self' = self
          ELSE /\ call' = [NoCall EXCEPT !.op = "forward", !.outcome = "ok",
                               !.computed = Len(coeffs)]
               /\ pyr_coeffs' = coeffs
               /\ self' = Recorded(self, coeffs)
    /\ recon' = NoRecon
    /\ UNCHANGED <<args, built, packed, unpacked, steered, callers, mock>>

(***************************************************************************)
(* recon_pyr                                                               *)
(***************************************************************************)
Keys(coeffs) == {coeffs[j][1] : j \in 1..Len(coeffs)}

\* tuple(pyr_coeffs.keys())
KeySeq(coeffs) == [j \in 1..Len(coeffs) |-> coeffs[j][1]]

\* pyr_coeffs[k]
Value(coeffs, k) == (CHOOSE j \in 1..Len(coeffs) : coeffs[j][1] = k)

\* the dictionary without key k
Without(coeffs, k) == SelectSeq(coeffs, LAMBDA kv : kv[1] # k)

\* the key a selector of self.scales stands for, with band b
ScaleKeys(sel, num_orientations) ==
    IF ~sel.isint THEN {ResKey(sel.s)}
    ELSE {BandKey(sel.n, b) : b \in 0..(num_orientations - 1)}

\* a variant of Incomplete: a completeness check that looks only at the keys asked for
IncompleteAmongSelected(p, keys, recon_keys) ==
    \E k \in recon_keys : k \notin keys

\* lines 711-722: some key of the full pyramid is missing from the dictionary
Incomplete(p, keys, recon_keys) ==
    \E j \in 1..Len(p.scales) :
        \E k \in ScaleKeys(p.scales[j], p.num_orientations) : k \notin keys

\* np.sort of a list of ints
RECURSIVE Insert(_, _)
Insert(n, s) ==
    IF s = <<>> THEN <<n>>
    ELSE IF n <= Head(s) THEN <<n>> \o s
    ELSE <<Head(s)>> \o Insert(n, Tail(s))

RECURSIVE Sort(_)
Sort(s) == IF s = <<>> THEN <<>> ELSE Insert(Head(s), Sort(Tail(s)))

Ints(levels) ==
    LET sel == SelectSeq(levels, LAMBDA l : l.isint)
    IN [j \in 1..Len(sel) |-> sel[j].n]

\* lines 581-584: an assertion of _recon_levels_check fails
LevelsOutOfRange(p, levels_type, levels) ==
    /\ levels_type # "all"
    /\ \E j \in 1..Len(levels) :
           levels[j].isint /\ (levels[j].n < 0 \/ levels[j].n >= p.num_scales)

\* lines 572-597: the list _recon_levels_check returns
ReconLevels(p, levels_type, levels) ==
    LET ints(s) == [j \in 1..Len(s) |-> IntSel(s[j])]
        listed ==
            IF levels_type = "all"
            THEN <<StrSel(residual_highpass)>> \o ints(Range(p.num_scales))
                     \o <<StrSel(residual_lowpass)>>
            ELSE (IF HasStr(levels, residual_highpass)
                  THEN <<StrSel(residual_highpass)>> ELSE <<>>)
                     \o ints(Sort(Ints(levels)))
                     \o (IF HasStr(levels, residual_lowpass)
                         THEN <<StrSel(residual_lowpass)>> ELSE <<>>)
        sized == DOMAIN p.pyr_size
        nolow == IF ResKey(residual_lowpass) \notin sized
                    /\ HasStr(listed, residual_lowpass)
                 THEN SubSeq(listed, 1, Len(listed) - 1) ELSE listed
    IN IF ResKey(residual_highpass) \notin sized /\ HasStr(nolow, residual_highpass)
       THEN Tail(nolow) ELSE nolow

\* lines 624-627: an assertion of _recon_bands_check fails
BandsOutOfRange(p, bands_type, bands) ==
    /\ bands_type # "all"
    /\ \E j \in 1..Len(bands) : bands[j] < 0 \/ bands[j] >= p.num_orientations

\* lines 620-628: the array _recon_bands_check returns
ReconBands(p, bands_type, bands) ==
    IF bands_type = "all" THEN Range(p.num_orientations) ELSE bands

\* lines 668-677: recon_keys, as a list
RECURSIVE ReconKeyList(_, _)
ReconKeyList(levels, bands) ==
    IF levels = <<>> THEN <<>>
    ELSE (IF ~Head(levels).isint THEN <<ResKey(Head(levels).s)>>
          ELSE [j \in 1..Len(bands) |-> BandKey(Head(levels).n, bands[j])])
             \o ReconKeyList(Tail(levels), bands)

ReconKeys(p, levels_type, levels, bands_type, bands) ==
    LET l == ReconKeyList(ReconLevels(p, levels_type, levels),
                          ReconBands(p, bands_type, bands))
    IN {l[j] : j \in 1..Len(l)}

\* A spectrum under reconstruction is a sum of contributions, each a key of the
\* dictionary and the operations applied to its value; `invoked` lists the
\* scales _recon_levels was entered with, in order.
Zero(shape) == [shape |-> shape, ok |-> TRUE, terms |-> <<>>, invoked |-> <<>>]

Contribution(k, shape, ops) ==
    [shape |-> shape, ok |-> TRUE, terms |-> <<[key |-> k, ops |-> ops]>>,
     invoked |-> <<>>]

ApplyAll(d, op) ==
    [d EXCEPT !.terms = [j \in 1..Len(d.terms) |->
                            [d.terms[j] EXCEPT !.ops = Append(@, op)]]]

MulAll(d, m) ==
    [ApplyAll(d, Op(m.mask, m.scale, m.band)) EXCEPT !.ok = d.ok /\ m.shape = d.shape]

Sum(a, b) ==
    [shape |-> a.shape, ok |-> a.ok /\ b.ok /\ a.shape = b.shape,
     terms |-> a.terms \o b.terms, invoked |-> a.invoked \o b.invoked]

\* lines 828-832: resdft[:, :, lostart[0]:loend[0], lostart[1]:loend[1]] = t
Place(t, i, box, shape) ==
    [ApplyAll(t, Op("place", i, 0)) EXCEPT
        !.shape = shape, !.ok = t.ok /\ Cropped(shape, box) = t.shape]

\* lines 805-815: the contribution of band (scale, b)
BandDft(p, coeffs, scale, b) ==
    LET k == BandKey(scale, b)
        scaled == IF p.tight_frame /\ p.is_complex THEN <<Op("mul_sqrt2", 0, 0)>> ELSE <<>>
        banddft == Contribution(k, coeffs[Value(coeffs, k)][2].shape,
                       scaled \o <<Op("fft2", 0, 0), Op("fftshift", 0, 0),
                                   Op("complex_const", 1, p.order)>>)
    IN MulAll(MulAll(banddft, p.anglemasks_recon[scale + 1][b + 1]), p.himasks[scale + 1])

\* lines 801-815: orientdft
OrientDft(p, coeffs, recon_keys, scale) ==
    LET shape == coeffs[Value(coeffs, BandKey(scale, 0))][2].shape
        F[b \in 0..p.num_orientations] ==
            IF b = 0 THEN Zero(shape)
            ELSE IF BandKey(scale, b - 1) \in recon_keys
            THEN Sum(F[b - 1], BandDft(p, coeffs, scale, b - 1))
            ELSE F[b - 1]
    IN F[p.num_orientations]

\* lines 784-835: _recon_levels(pyr_coeffs, recon_keys, scale)
RECURSIVE ReconLevelsDft(_, _, _, _)
ReconLevelsDft(p, coeffs, recon_keys, scale) ==
    IF scale = p.num_scales
    THEN LET low == coeffs[Value(coeffs, ResKey(residual_lowpass))][2]
         IN [(IF ResKey(residual_lowpass) \in recon_keys
              THEN Contribution(ResKey(residual_lowpass), low.shape,
                                <<Op("fft2", 0, 0), Op("fftshift", 0, 0)>>)
              ELSE Zero(low.shape))
             EXCEPT !.invoked = <<scale>>]
    ELSE LET orientdft == OrientDft(p, coeffs, recon_keys, scale)
             deeper == ReconLevelsDft(p, coeffs, recon_keys, scale + 1)
             reslevdft == IF ~p.tight_frame /\ ~p.downsample
                          THEN ApplyAll(deeper, Op("div2", 0, 0)) ELSE deeper
             resdft == Place(MulAll(reslevdft, p.lomasks[scale + 1]), scale,
                             p.loindices[scale + 1], orientdft.shape)
         IN [Sum(resdft, orientdft) EXCEPT !.invoked = <<scale>> \o deeper.invoked]

\* lines 739-758: the reconstruction, from the recursion's result
Reconstruction(p, coeffs, recon_keys) ==
    LET recondft == ReconLevelsDft(p, coeffs, recon_keys, 0)
        low == MulAll(recondft, p.lo0mask)
        hi == Contribution(ResKey(residual_highpass),
                           coeffs[Value(coeffs, ResKey(residual_highpass))][2].shape,
                           <<Op("fft2", 0, 0), Op("fftshift", 0, 0)>>)
        outdft == IF ResKey(residual_highpass) \in recon_keys
                  THEN Sum(low, MulAll(hi, p.hi0mask)) ELSE low
    IN ApplyAll(ApplyAll(ApplyAll(outdft, Op("ifftshift", 0, 0)), Op("ifft2", 0, 0)),
                Op("real", 0, 0))

\* line 724: the test that triggers recon_pyr's twidth warning
ReconTwidthWarns(twidth) == twidth <= 0

\* lines 743, 786-789, 801, 806: the keys the reconstruction looks up
LookedUp(p, recon_keys) ==
    {ResKey(residual_lowpass)}
        \cup {BandKey(i, 0) : i \in 0..(p.num_scales - 1)}
        \cup {k \in recon_keys : Len(k) = 2 => (0 <= k[1] /\ k[1] < p.num_scales)}

\* lines 711-728, 796: the exception recon_pyr raises, or ""
ReconRaises(p, keys, levels_type, levels, bands_type, bands) ==
    LET recon_keys == ReconKeys(p, levels_type, levels, bands_type, bands)
    IN IF Incomplete(p, keys, recon_keys) THEN "Exception"
       ELSE IF LevelsOutOfRange(p, levels_type, levels) THEN "AssertionError"
       ELSE IF BandsOutOfRange(p, bands_type, bands) THEN "AssertionError"
       ELSE IF p.num_scales < 0 THEN "IndexError"
       ELSE IF \E k \in LookedUp(p, recon_keys) : k \notin keys THEN "KeyError"
       ELSE ""

\* a variant of ReconPyr: a reconstruction whose radial masks are rebuilt with the twidth argument
ReconPyrRebuildingMasks(coeffs, levels_type, levels, bands_type, bands, twidth) ==
    /\ built = "ok"
    /\ inp' = [NoInput EXCEPT !.coeffs = coeffs,
                   !.keys = Keys(coeffs), !.levels_type = levels_type,
                   !.levels = levels, !.bands_type = bands_type, !.bands = bands,
                   !.twidth = twidth]
    /\ LET err == ReconRaises(self, Keys(coeffs), levels_type, levels, bands_type, bands)
           warns == IF ReconTwidthWarns(twidth) /\ err # "Exception"
                    THEN {TwidthWarning} ELSE {}
           used == IF ReconTwidthWarns(twidth) THEN 1 ELSE twidth
       IN IF err # ""
          THEN /\ call' = [NoCall EXCEPT !.op = "recon_pyr", !.outcome = err,
                               !.warnings = warns]
               /\ recon' = NoRecon
          ELSE /\ call' = [NoCall EXCEPT !.op = "recon_pyr", !.outcome = "ok",
                               !.warnings = warns]
               /\ recon' = ApplyAll(Reconstruction(self, coeffs,
                                  ReconKeys(self, levels_type, levels, bands_type, bands)),
                               Op("twidth", used, 0))
    /\ UNCHANGED <<args, built, self, pyr_coeffs, packed, unpacked, steered, callers, mock>>

\* Steerable_Pyramid_Freq.recon_pyr(pyr_coeffs, levels, bands, twidth)
ReconPyr(coeffs, levels_type, levels, bands_type, bands, twidth) ==
    /\ built = "ok"
    /\ inp' = [NoInput EXCEPT !.coeffs = coeffs,
                   !.keys = Keys(coeffs), !.levels_type = levels_type,
                   !.levels = levels, !.bands_type = bands_type, !.bands = bands,
                   !.twidth = twidth]
    /\ LET err == ReconRaises(self, Keys(coeffs), levels_type, levels, bands_type, bands)
           warns == IF ReconTwidthWarns(twidth) /\ err # "Exception"
                    THEN {TwidthWarning} ELSE {}
       IN IF err # ""
          THEN /\ call' = [NoCall EXCEPT !.op = "recon_pyr", !.outcome = err,
                               !.warnings = warns]
               /\ recon' = NoRecon
          ELSE /\ call' = [NoCall EXCEPT !.op = "recon_pyr", !.outcome = "ok",
                               !.warnings = warns]
               /\ recon' = Reconstruction(self, coeffs,
                               ReconKeys(self, levels_type, levels, bands_type, bands))
    /\ UNCHANGED <<args, built, self, pyr_coeffs, packed, unpacked, steered, callers, mock>>

(***************************************************************************)
(* convert_pyr_to_tensor and convert_tensor_to_pyr                         *)
(***************************************************************************)
\* line 14, 468: the dtype of a tensor is complex unless its real part was taken
IsComplexTensor(t) == t.ops[Len(t.ops)].f # "real"

\* line 465, 533: 'residual' in k (a substring test on a str key, a membership
\* test on a tuple key)
IsResidualKey(k) == Len(k) = 1

\* One channel of the packed tensor: channel ch of the tensor t, whole or its
\* real or imaginary part.
Channel(t, ch, part) == [t |-> t, ch |-> ch, part |-> part]

\* lines 463-471: the residuals and the bands of channel ch, in dictionary order
RECURSIVE PackResiduals(_, _)
PackResiduals(coeffs, ch) ==
    IF coeffs = <<>> THEN <<>>
    ELSE (IF IsResidualKey(Head(coeffs)[1])
          THEN <<Channel(Head(coeffs)[2], ch, "whole")>> ELSE <<>>)
             \o PackResiduals(Tail(coeffs), ch)

\* a variant of PackBands: the imaginary part of a split band before its real part
PackBandsImagFirst(coeffs, ch, split_complex) ==
    LET F[j \in 0..Len(coeffs)] ==
            IF j = 0 THEN <<>>
            ELSE LET t == coeffs[j][2]
                 IN IF IsResidualKey(coeffs[j][1]) THEN F[j - 1]
                    ELSE IF IsComplexTensor(t) /\ split_complex
                    THEN F[j - 1] \o <<Channel(t, ch, "imag"), Channel(t, ch, "real")>>
                    ELSE Append(F[j - 1], Channel(t, ch, "whole"))
    IN F[Len(coeffs)]

RECURSIVE PackBands(_, _, _)
PackBands(coeffs, ch, split_complex) ==
    IF coeffs = <<>> THEN <<>>
    ELSE LET t == Head(coeffs)[2]
         IN (IF IsResidualKey(Head(coeffs)[1]) THEN <<>>
             ELSE IF IsComplexTensor(t) /\ split_complex
             THEN <<Channel(t, ch, "real"), Channel(t, ch, "imag")>>
             ELSE <<Channel(t, ch, "whole")>>)
                \o PackBands(Tail(coeffs), ch, split_complex)

\* lines 461-479: the block of channel ch
PackBlock(coeffs, ch, split_complex) ==
    LET resid == PackResiduals(coeffs, ch)
        bands == PackBands(coeffs, ch, split_complex)
    IN IF ResKey(residual_highpass) \in Keys(coeffs)
       THEN IF ResKey(residual_lowpass) \in Keys(coeffs)
            THEN <<resid[1]>> \o bands \o <<resid[2]>>
            ELSE <<resid[1]>> \o bands
       ELSE IF ResKey(residual_lowpass) \in Keys(coeffs)
       THEN bands \o <<resid[1]>>
       ELSE bands

\* lines 457-481: coeff_list
RECURSIVE CoeffList(_, _, _, _)
CoeffList(coeffs, ch, num_channels, split_complex) ==
    IF ch >= num_channels THEN <<>>
    ELSE PackBlock(coeffs, ch, split_complex)
             \o CoeffList(coeffs, ch + 1, num_channels, split_complex)

\* a variant of CatRaises: a concatenation that compares the first two tensors only
CatRaisesFirstTwo(coeff_list) ==
    \/ coeff_list = <<>>
    \/ Len(coeff_list) >= 2 /\ coeff_list[2].t.shape # coeff_list[1].t.shape

\* line 484: torch.cat(coeff_list, dim=1) raises RuntimeError unless the tensors
\* agree in every dimension but the channel one (an empty list raises too)
CatRaises(coeff_list) ==
    \/ coeff_list = <<>>
    \/ \E j \in 1..Len(coeff_list) : coeff_list[j].t.shape # coeff_list[1].t.shape

\* lines 455-492: the exception convert_pyr_to_tensor raises, or ""
PackRaises(coeffs, split_complex) ==
    IF coeffs = <<>> THEN "IndexError"
    ELSE IF CatRaises(CoeffList(coeffs, 0, coeffs[1][2].nch, split_complex))
    THEN "Exception"
    ELSE ""

\* lines 484-485: (pyr_tensor, pyr_info); the tensor is its list of channels, its
\* spatial shape and its dtype after promotion
PackResult(coeffs, split_complex) ==
    LET num_channels == coeffs[1][2].nch
        coeff_list == CoeffList(coeffs, 0, num_channels, split_complex)
    IN [pyr_tensor |->
            [channels |-> coeff_list,
             shape |-> coeff_list[1].t.shape,
             complex |-> \E j \in 1..Len(coeff_list) :
                             coeff_list[j].part = "whole" /\ IsComplexTensor(coeff_list[j].t)],
        pyr_info |-> <<num_channels, split_complex, KeySeq(coeffs)>>]

\* Steerable_Pyramid_Freq.convert_pyr_to_tensor(pyr_coeffs, split_complex)
ConvertPyrToTensor(coeffs, split_complex) ==
    /\ inp' = [NoInput EXCEPT !.coeffs = coeffs, !.keys = Keys(coeffs),
                   !.split_complex = split_complex]
    /\ LET err == PackRaises(coeffs, split_complex)
       IN /\ call' = [NoCall EXCEPT !.op = "convert_pyr_to_tensor",
                           !.outcome = IF err = "" THEN "ok" ELSE err]
          /\ packed' = IF err = "" THEN PackResult(coeffs, split_complex) ELSE NoPacked
    /\ unpacked' = NoUnpacked
    /\ UNCHANGED <<args, built, self, pyr_coeffs, recon, steered, callers, mock>>

\* lines 533-542: the band read at channel index i (0-based) of the tensor:
\* kind is "float" (cast to torch.float), "complex" (two channels viewed as one
\* complex band) or "channel"; missing is TRUE when the read runs off the tensor
ReadBand(pyr_tensor, i, k, split_complex) ==
    LET n == Len(pyr_tensor.channels)
        at(j) == pyr_tensor.channels[j + 1]
    IN IF IsResidualKey(k)
       THEN [kind |-> "float", parts |-> IF i < n THEN <<at(i)>> ELSE <<>>,
             used |-> 1, missing |-> i >= n, error |-> "IndexError"]
       ELSE IF split_complex
       THEN [kind |-> "complex",
             parts |-> IF i + 1 < n THEN <<at(i), at(i + 1)>> ELSE <<>>,
             used |-> 2, missing |-> i + 1 >= n \/ pyr_tensor.complex,
             error |-> "RuntimeError"]
       ELSE [kind |-> "channel", parts |-> IF i < n THEN <<at(i)>> ELSE <<>>,
             used |-> 1, missing |-> i >= n, error |-> "IndexError"]

\* lines 543-546: pyr_coeffs[k] = band, or band appended to pyr_coeffs[k]
PutBand(d, k, band) ==
    IF k \in Keys(d)
    THEN [j \in 1..Len(d) |-> IF d[j][1] = k THEN <<k, Append(d[j][2], band)>> ELSE d[j]]
    ELSE Append(d, <<k, <<band>>>>)

\* lines 529-548: the loop over channels and keys, from step n on (step n reads
\* key n % Len(pyr_keys) of channel n \div Len(pyr_keys)); st holds i, the
\* dictionary so far and the error met, if any
RECURSIVE UnpackFrom(_, _, _, _, _, _)
UnpackFrom(pyr_tensor, num_channels, split_complex, pyr_keys, n, st) ==
    IF n >= num_channels * Len(pyr_keys) \/ st.error # "" THEN st
    ELSE LET k == pyr_keys[(n % Len(pyr_keys)) + 1]
             band == ReadBand(pyr_tensor, st.i, k, split_complex)
         IN UnpackFrom(pyr_tensor, num_channels, split_complex, pyr_keys, n + 1,
                IF band.missing
                THEN [st EXCEPT !.error = band.error]
                ELSE [i |-> st.i + band.used,
                      d |-> PutBand(st.d, k, [kind |-> band.kind, parts |-> band.parts]),
                      error |-> ""])

UnpackResult(pyr_tensor, num_channels, split_complex, pyr_keys) ==
    UnpackFrom(pyr_tensor, num_channels, split_complex, pyr_keys, 0,
               [i |-> 0, d |-> <<>>, error |-> ""])

\* Steerable_Pyramid_Freq.convert_tensor_to_pyr(pyr_tensor, num_channels,
\* split_complex, pyr_keys)
ConvertTensorToPyr(pyr_tensor, num_channels, split_complex, pyr_keys) ==
    /\ inp' = [NoInput EXCEPT !.split_complex = split_complex,
                   !.keys = {pyr_keys[j] : j \in 1..Len(pyr_keys)}]
    /\ LET r == UnpackResult(pyr_tensor, num_channels, split_complex, pyr_keys)
       IN /\ call' = [NoCall EXCEPT !.op = "convert_tensor_to_pyr",
                           !.outcome = IF r.error = "" THEN "ok" ELSE r.error]
          /\ unpacked' = IF r.error = "" THEN r.d ELSE NoUnpacked
    /\ UNCHANGED <<args, built, self, pyr_coeffs, recon, packed, steered, callers, mock>>

(***************************************************************************)
(* steer_coeffs                                                            *)
(***************************************************************************)
\* a variant of SteerRaises: no assertion on the dtype of pyr_coeffs[(0, 0)]
SteerRaisesNoDtypeCheck(p, coeffs) ==
    IF BandKey(0, 0) \notin Keys(coeffs) THEN "KeyError"
    ELSE IF \E i \in 0..(p.num_scales - 1), j \in 0..(p.num_orientations - 1) :
                BandKey(i, j) \notin Keys(coeffs)
    THEN "KeyError"
    ELSE ""

\* lines 865-872: the exception steer_coeffs raises, or ""
SteerRaises(p, coeffs) ==
    IF BandKey(0, 0) \notin Keys(coeffs) THEN "KeyError"
    ELSE IF IsComplexTensor(coeffs[Value(coeffs, BandKey(0, 0))][2]) THEN "AssertionError"
    ELSE IF \E i \in 0..(p.num_scales - 1), j \in 0..(p.num_orientations - 1) :
                BandKey(i, j) \notin Keys(coeffs)
    THEN "KeyError"
    ELSE ""

\* lines 871-876: what steer(basis, a, return_weights=True, even_phase) returns
\* for the basis of scale i and the j-th angle: named, not computed
SteerCall(coeffs, num_orientations, i, j, even_phase, what) ==
    [f |-> "steer", what |-> what, scale |-> i, angle |-> j, even_phase |-> even_phase,
     basis |-> [b \in 1..num_orientations |-> coeffs[Value(coeffs, BandKey(i, b - 1))][2]]]

\* lines 870-878: the items of one of the two dictionaries; key_of(j) is the
\* second component of the key written for the j-th angle
SteerItems(p, coeffs, num_angles, even_phase, what, offset) ==
    LET row(i) == [n \in 1..num_angles |->
                      <<BandKey(i, offset + n - 1),
                        SteerCall(coeffs, p.num_orientations, i, n - 1, even_phase, what)>>]
        F[i \in 0..Max(p.num_scales, 0)] ==
            IF i = 0 THEN <<>> ELSE F[i - 1] \o row(i - 1)
    IN F[Max(p.num_scales, 0)]

\* line 878: resteered_coeffs[(i, num_orientations + j)]
ResteeredCoeffs(p, coeffs, num_angles, even_phase) ==
    SteerItems(p, coeffs, num_angles, even_phase, "res", p.num_orientations)

\* line 877: resteering_weights[(i, j)]
ResteeringWeights(p, coeffs, num_angles, even_phase) ==
    SteerItems(p, coeffs, num_angles, even_phase, "steervect", 0)

\* Steerable_Pyramid_Freq.steer_coeffs(pyr_coeffs, angles, even_phase); angles
\* is a list of num_angles angles
SteerCoeffs(coeffs, num_angles, even_phase) ==
    /\ built = "ok"
    /\ inp' = [NoInput EXCEPT !.coeffs = coeffs, !.keys = Keys(coeffs),
                   !.angles = num_angles]
    /\ LET err == SteerRaises(self, coeffs)
       IN /\ call' = [NoCall EXCEPT !.op = "steer_coeffs",
                           !.outcome = IF err = "" THEN "ok" ELSE err]
          /\ steered' = IF err # "" THEN NoSteered
                        ELSE [resteered_coeffs |->
                                  ResteeredCoeffs(self, coeffs, num_angles, even_phase),
                              resteering_weights |->
                                  ResteeringWeights(self, coeffs, num_angles, even_phase)]
    /\ UNCHANGED <<args, built, self, pyr_coeffs, recon, packed, unpacked, callers, mock>>

(***************************************************************************)
(* Several callers on one pyramid.  A call is a sequence of steps, each     *)
(* reading and writing the shared object as the code between two points    *)
(* of the method does; steps of different callers interleave.              *)
(***************************************************************************)
IdleCaller ==
    [pc |-> "idle", op |-> "", x |-> NoInput.x, scales_given |-> <<>>, scales |-> <<>>,
     lo0mask |-> <<>>, hi0mask |-> <<>>, i |-> 0, lodft |-> <<>>, coeffs |-> <<>>,
     recon_keys |-> {}, outcome |-> "", result |-> <<>>]

Raised(r, op, err) == [r EXCEPT !.pc = "done", !.op = op, !.outcome = err]
Returned(r, op, result) ==
    [r EXCEPT !.pc = "done", !.op = op, !.outcome = "ok", !.result = result]

\* forward, lines 316-334: the checks, the copies of lo0mask and hi0mask, imdft
ForwardBegin(c, x, scales) ==
    /\ built = "ok"
    /\ callers[c].pc = "idle"
    /\ LET err == ForwardRaises(self, x, "list", scales)
           r == [callers[c] EXCEPT !.x = x, !.scales_given = scales]
       IN callers' = [callers EXCEPT ![c] =
              IF err # "" THEN Raised(r, "forward", err)
              ELSE [r EXCEPT !.pc = "highpass", !.op = "forward",
                             !.scales = EffectiveScales(self, scales),
                             !.lo0mask = self.lo0mask, !.hi0mask = self.hi0mask,
                             !.lodft = Imdft(x, self.image_shape)]]
    /\ UNCHANGED <<args, built, self, pyr_coeffs, call, inp, recon, packed, unpacked,
                   steered, mock>>

\* forward, lines 336-345: the high-pass residual, then lodft
ForwardHighpass(c) ==
    /\ callers[c].pc = "highpass"
    /\ LET r == callers[c]
           hi == IF HasStr(r.scales, residual_highpass)
                 THEN <<(<<ResKey(residual_highpass), RealImage(Mul(r.lodft, r.hi0mask))>>)>>
                 ELSE <<>>
       IN /\ callers' = [callers EXCEPT ![c] =
                 [r EXCEPT !.pc = "scale", !.i = 0, !.coeffs = hi,
                           !.lodft = Mul(r.lodft, r.lo0mask)]]
          /\ self' = Recorded(self, hi)
    /\ UNCHANGED <<args, built, pyr_coeffs, call, inp, recon, packed, unpacked, steered, mock>>

\* forward, lines 347-409: one iteration of the loop over the scales
ForwardScale(c) ==
    /\ callers[c].pc = "scale"
    /\ callers[c].i < self.num_scales
    /\ LET r == callers[c]
           new == IF HasInt(r.scales, r.i) THEN Bands(self, r.lodft, r.i) ELSE <<>>
       IN /\ callers' = [callers EXCEPT ![c] =
                 [r EXCEPT !.i = r.i + 1, !.coeffs = r.coeffs \o new,
                           !.lodft = NextLodft(self, r.lodft, r.i, r.scales)]]
          /\ self' = Recorded(self, new)
    /\ UNCHANGED <<args, built, pyr_coeffs, call, inp, recon, packed, unpacked, steered, mock>>

\* forward, lines 411-418: the low-pass residual and the return
ForwardLowpass(c) ==
    /\ callers[c].pc = "scale"
    /\ callers[c].i >= self.num_scales
    /\ LET r == callers[c]
           lo == IF HasStr(r.scales, residual_lowpass)
                 THEN <<(<<ResKey(residual_lowpass), RealImage(r.lodft)>>)>>
                 ELSE <<>>
       IN /\ callers' = [callers EXCEPT ![c] = Returned(r, "forward", r.coeffs \o lo)]
          /\ self' = Recorded(self, lo)
    /\ UNCHANGED <<args, built, pyr_coeffs, call, inp, recon, packed, unpacked, steered, mock>>

\* recon_pyr, lines 711-728: the checks and recon_keys
ReconBegin(c, coeffs, levels_type, levels, bands_type, bands) ==
    /\ built = "ok"
    /\ callers[c].pc = "idle"
    /\ LET err == ReconRaises(self, Keys(coeffs), levels_type, levels, bands_type, bands)
       IN callers' = [callers EXCEPT ![c] =
              IF err # "" THEN Raised(callers[c], "recon_pyr", err)
              ELSE [callers[c] EXCEPT
                       !.pc = "recon", !.op = "recon_pyr", !.coeffs = coeffs,
                       !.recon_keys = ReconKeys(self, levels_type, levels,
                                                bands_type, bands)]]
    /\ UNCHANGED <<args, built, self, pyr_coeffs, call, inp, recon, packed, unpacked,
                   steered, mock>>

\* recon_pyr, lines 732-760: the recursion over the scales and the return
ReconFinish(c) ==
    /\ callers[c].pc = "recon"
    /\ LET r == callers[c]
       IN callers' = [callers EXCEPT ![c] =
              Returned(r, "recon_pyr", Reconstruction(self, r.coeffs, r.recon_keys))]
    /\ UNCHANGED <<args, built, self, pyr_coeffs, call, inp, recon, packed, unpacked,
                   steered, mock>>

\* convert_pyr_to_tensor, a static method: it has no access to the object
CallerPack(c, coeffs, split_complex) ==
    /\ built = "ok"
    /\ callers[c].pc = "idle"
    /\ LET err == PackRaises(coeffs, split_complex)
       IN callers' = [callers EXCEPT ![c] =
              IF err # "" THEN Raised(callers[c], "convert_pyr_to_tensor", err)
              ELSE Returned(callers[c], "convert_pyr_to_tensor",
                            PackResult(coeffs, split_complex))]
    /\ UNCHANGED <<args, built, self, pyr_coeffs, call, inp, recon, packed, unpacked,
                   steered, mock>>

\* convert_tensor_to_pyr, a static method, on a tensor this caller packed
CallerUnpack(c) ==
    /\ callers[c].pc = "done"
    /\ callers[c].op = "convert_pyr_to_tensor"
    /\ callers[c].outcome = "ok"
    /\ LET t == callers[c].result
           r == UnpackResult(t.pyr_tensor, t.pyr_info[1], t.pyr_info[2], t.pyr_info[3])
       IN callers' = [callers EXCEPT ![c] =
              IF r.error # "" THEN Raised(callers[c], "convert_tensor_to_pyr", r.error)
              ELSE Returned(callers[c], "convert_tensor_to_pyr", r.d)]
    /\ UNCHANGED <<args, built, self, pyr_coeffs, call, inp, recon, packed, unpacked,
                   steered, mock>>

\* steer_coeffs, lines 865-881
CallerSteer(c, coeffs, num_angles, even_phase) ==
    /\ built = "ok"
    /\ callers[c].pc = "idle"
    /\ LET err == SteerRaises(self, coeffs)
       IN callers' = [callers EXCEPT ![c] =
              IF err # "" THEN Raised(callers[c], "steer_coeffs", err)
              ELSE Returned(callers[c], "steer_coeffs",
                       [resteered_coeffs |->
                            ResteeredCoeffs(self, coeffs, num_angles, even_phase),
                        resteering_weights |->
                            ResteeringWeights(self, coeffs, num_angles, even_phase)])]
    /\ UNCHANGED <<args, built, self, pyr_coeffs, call, inp, recon, packed, unpacked,
                   steered, mock>>

(***************************************************************************)
(* The constructor specification: every combination of arguments within    *)
(* the bounds, then __init__.                                              *)
(***************************************************************************)
\* 256 is the image side of the documented scenario
Sides == (1..MaxSide) \cup {256}
HeightArgs == (-1)..MaxHeightArg
OrderArgs == ((MinOrder - OrderSlack)..(MinOrder + OrderSlack))
                 \cup ((MaxOrder - OrderSlack)..(MaxOrder + OrderSlack))
TwidthArgs == (-1)..MaxTwidthNum

NothingCalled ==
    /\ built = "new"
    /\ self = NoPyramid
    /\ pyr_coeffs = <<>>
    /\ call = NoCall
    /\ inp = NoInput
    /\ recon = NoRecon
    /\ packed = NoPacked
    /\ unpacked = NoUnpacked
    /\ steered = NoSteered

\* a pyramid about to be built and used by one caller, one call at a time
Unbuilt ==
    /\ NothingCalled
    /\ callers = <<>>
    /\ mock = NoMock

InitBuild ==
    /\ args \in [image_shape : Sides \X Sides, height_auto : {FALSE},
                 height : HeightArgs, order : OrderArgs, twidth : TwidthArgs,
                 is_complex : BOOLEAN, downsample : BOOLEAN, tight_frame : BOOLEAN]
            \cup [image_shape : Sides \X Sides, height_auto : {TRUE},
                  height : {0}, order : OrderArgs, twidth : TwidthArgs,
                  is_complex : BOOLEAN, downsample : BOOLEAN, tight_frame : BOOLEAN]
    /\ Unbuilt

NextBuild == Construct

SpecBuild == InitBuild /\ [][NextBuild]_vars

(***************************************************************************)
(* The forward specification: a few pyramids, then one forward call on     *)
(* the built one, with any argument within the bounds.                     *)
(***************************************************************************)
CallShapes == {<<16, 16>>, <<9, 16>>}
CallOrders == {1, 2}
CallHeights == 0..MaxHeightArg

ArgsOver(shapes, heights, orders) ==
    [image_shape : shapes, height_auto : {FALSE}, height : heights, order : orders,
     twidth : {TwidthDen}, is_complex : BOOLEAN, downsample : BOOLEAN,
     tight_frame : BOOLEAN]
        \cup [image_shape : shapes, height_auto : {TRUE}, height : {0}, order : orders,
              twidth : {TwidthDen}, is_complex : BOOLEAN, downsample : BOOLEAN,
              tight_frame : BOOLEAN]

Selectors ==
    {IntSel(n) : n \in (-1)..MaxSelInt}
        \cup {StrSel(s) : s \in {residual_highpass, residual_lowpass, "residual_midpass"}}

SeqsUpTo(S, n) == UNION {[1..k -> S] : k \in 0..n}

Images == {[id |-> 1, ndim |-> d, nch |-> 1, dtype |-> "float32"] : d \in {3, 4}}

InitForward ==
    /\ args \in ArgsOver(CallShapes, CallHeights, CallOrders)
    /\ Unbuilt

ForwardOnce ==
    /\ call.op = "__init__"
    /\ \E x \in Images, scales_type \in {"list", "tuple", "int"} :
           \E scales \in (IF NotAList(scales_type) THEN {<<>>}
                          ELSE SeqsUpTo(Selectors, MaxSelLen)) :
               Forward(x, scales_type, scales)

NextForward == Construct \/ ForwardOnce

SpecForward == InitForward /\ [][NextForward]_vars

(***************************************************************************)
(* The reconstruction specification: a pyramid, at most one forward call   *)
(* on an image, then one recon_pyr call.  The dictionary handed to         *)
(* recon_pyr is the one that forward call returned, that dictionary with   *)
(* one key removed, or the complete dictionary of the image obtained from  *)
(* another pyramid object built with the same arguments.                   *)
(***************************************************************************)
InitRecon ==
    /\ args \in ArgsOver(CallShapes, {0}, {MinOrder})
    /\ Unbuilt

\* a set of selectors as a list, integers ascending
RECURSIVE ListOf(_)
ListOf(S) ==
    IF S = {} THEN <<>>
    ELSE LET m == CHOOSE e \in S : \A f \in S :
                      \/ e.isint /\ ~f.isint
                      \/ e.isint /\ f.isint /\ e.n <= f.n
                      \/ ~e.isint /\ ~f.isint /\ (e.s = f.s \/ e.s = residual_highpass)
         IN <<m>> \o ListOf(S \ {m})

LevelInputs ==
    {<<"all", <<>>>>}
        \cup {<<"int", <<IntSel(n)>>>> : n \in (-1)..MaxSelInt}
        \cup {<<"str", <<StrSel(s)>>>> :
                s \in {residual_highpass, residual_lowpass, "residual_midpass"}}
        \cup {<<"list", ListOf(S)>> :
                S \in SUBSET ({IntSel(n) : n \in (-1)..MaxSelInt}
                                 \cup {StrSel(residual_highpass), StrSel(residual_lowpass)})}

BandInputs ==
    {<<"all", <<>>>>}
        \cup {<<"int", <<b>>>> : b \in (-1)..MaxBandSel}
        \cup {<<"list", <<>>>>, <<"list", <<0>>>>, <<"list", <<1>>>>,
              <<"list", <<0, 1>>>>, <<"list", <<1, 0>>>>}

ForwardForRecon ==
    /\ call.op = "__init__"
    /\ \E x \in {i \in Images : i.ndim = 4},
          scales \in SeqsUpTo({IntSel(0), StrSel(residual_lowpass)}, 1) :
           Forward(x, "list", scales)

\* forward(x) as returned by a pyramid object built with the arguments of p:
\* the returned dictionary depends on p's construction parameters and x only
CompleteDictionary(p, x) == ForwardCoeffs(p, x, p.scales)

ReconOnce ==
    /\ built = "ok"
    /\ call.op \in {"__init__", "forward"}
    /\ \E coeffs \in {pyr_coeffs} \cup {Without(pyr_coeffs, k) : k \in Keys(pyr_coeffs)}
                        \cup {CompleteDictionary(self, x) : x \in {i \in Images : i.ndim = 4}},
          l \in LevelInputs, b \in BandInputs, twidth \in {0, 1} :
           ReconPyr(coeffs, l[1], l[2], b[1], b[2], twidth)

NextRecon == Construct \/ ForwardForRecon \/ ReconOnce

SpecRecon == InitRecon /\ [][NextRecon]_vars

(***************************************************************************)
(* The packing specification: a pyramid, one forward call on an image of   *)
(* one or several channels, convert_pyr_to_tensor on the dictionary it     *)
(* returned, then convert_tensor_to_pyr on the tensor and its pyr_info.    *)
(***************************************************************************)
\* images of up to MaxChannels channels are packed
MaxChannels == 2

PackImages ==
    {[id |-> 1, ndim |-> 4, nch |-> c, dtype |-> t] :
        c \in 1..MaxChannels, t \in {"float32", "float64"}}

InitPack ==
    /\ args \in ArgsOver({<<16, 16>>}, CallHeights, {MinOrder})
    /\ Unbuilt

ForwardForPack ==
    /\ call.op = "__init__"
    /\ \E x \in PackImages, scales \in SeqsUpTo(Selectors, MaxSelLen) :
           Forward(x, "list", scales)

PackOnce ==
    /\ call.op = "forward"
    /\ call.outcome = "ok"
    /\ \E split_complex \in BOOLEAN : ConvertPyrToTensor(pyr_coeffs, split_complex)

\* convert_tensor_to_pyr(pyr_tensor, *pyr_info), as documented
UnpackOnce ==
    /\ call.op = "convert_pyr_to_tensor"
    /\ call.outcome = "ok"
    /\ ConvertTensorToPyr(packed.pyr_tensor, packed.pyr_info[1], packed.pyr_info[2],
                          packed.pyr_info[3])

NextPack == Construct \/ ForwardForPack \/ PackOnce \/ UnpackOnce

SpecPack == InitPack /\ [][NextPack]_vars

(***************************************************************************)
(* The steering specification: a pyramid, one forward call, then one       *)
(* steer_coeffs call on the dictionary it returned.                        *)
(***************************************************************************)
\* angle lists of at most MaxAngles angles are tried
MaxAngles == 2

InitSteer ==
    /\ args \in ArgsOver({<<16, 16>>}, CallHeights, CallOrders)
    /\ Unbuilt

ForwardForSteer ==
    /\ call.op = "__init__"
    /\ \E x \in {i \in Images : i.ndim = 4}, scales \in SeqsUpTo(Selectors, MaxSelLen) :
           Forward(x, "list", scales)

SteerOnce ==
    /\ call.op = "forward"
    /\ call.outcome = "ok"
    /\ \E num_angles \in 0..MaxAngles, even_phase \in BOOLEAN :
           SteerCoeffs(pyr_coeffs, num_angles, even_phase)

NextSteer == Construct \/ ForwardForSteer \/ SteerOnce

SpecSteer == InitSteer /\ [][NextSteer]_vars

(***************************************************************************)
(* The shared-pyramid specification: a pyramid, then NumCallers callers,    *)
(* each making one call on it (convert_tensor_to_pyr following its          *)
(* convert_pyr_to_tensor), their steps interleaved in any order.  Caller c  *)
(* works on its own image, c.                                              *)
(***************************************************************************)
NumCallers == 2

Callers == 1..NumCallers

ImageOf(c) == [id |-> c, ndim |-> 4, nch |-> 1, dtype |-> "float32"]

SharedScales ==
    SeqsUpTo({IntSel(0), IntSel(1), StrSel(residual_highpass), StrSel(residual_lowpass)}, 1)

InitShared ==
    /\ args \in ArgsOver({<<16, 16>>}, {1}, {MinOrder})
    /\ NothingCalled
    /\ callers = [c \in Callers |-> IdleCaller]
    /\ mock = NoMock

CallerStep(c) ==
    \/ \E scales \in SharedScales : ForwardBegin(c, ImageOf(c), scales)
    \/ ForwardHighpass(c)
    \/ ForwardScale(c)
    \/ ForwardLowpass(c)
    \/ \E l \in {<<"all", <<>>>>, <<"list", <<IntSel(0)>>>>,
                  <<"list", <<StrSel(residual_highpass), IntSel(1)>>>>} :
           ReconBegin(c, CompleteDictionary(self, ImageOf(c)), l[1], l[2], "all", <<>>)
    \/ ReconFinish(c)
    \/ \E split_complex \in BOOLEAN :
           CallerPack(c, CompleteDictionary(self, ImageOf(c)), split_complex)
    \/ CallerUnpack(c)
    \/ CallerSteer(c, CompleteDictionary(self, ImageOf(c)), 1, TRUE)

NextShared == Construct \/ \E c \in Callers : CallerStep(c)

SpecShared == InitShared /\ [][NextShared]_vars

(***************************************************************************)
(* The subsampling specification: the subsampling step of the constructor  *)
(* applied, again and again, to a grid of any shape up to MaxGrid on each   *)
(* axis.                                                                   *)
(***************************************************************************)
MaxGrid == 12

InitBox ==
    /\ \E d \in (1..MaxGrid) \X (1..MaxGrid) :
           /\ mock = MockImage(d)
           /\ args = [image_shape |-> d, height_auto |-> TRUE, height |-> 0,
                      order |-> MinOrder, twidth |-> TwidthDen, is_complex |-> FALSE,
                      downsample |-> TRUE, tight_frame |-> FALSE]
    /\ NothingCalled
    /\ callers = <<>>

NextBox == SubsampleLowpass

SpecBox == InitBox /\ [][NextBox]_vars

(***************************************************************************)
(* The round-trip specification: a pyramid of any accepted height, one     *)
(* forward call for every key on an image, then one recon_pyr call on the   *)
(* dictionary that call returned.                                          *)
(***************************************************************************)
InitRoundTrip ==
    /\ args \in ArgsOver(CallShapes, (-1)..MaxHeightArg, CallOrders)
    /\ Unbuilt

ForwardAll ==
    /\ call.op = "__init__"
    /\ \E x \in {i \in Images : i.ndim = 4} : Forward(x, "list", <<>>)

ReconOfForward ==
    /\ call.op = "forward"
    /\ call.outcome = "ok"
    /\ \E l \in {<<"all", <<>>>>, <<"list", <<IntSel(0)>>>>,
                  <<"list", <<StrSel(residual_lowpass)>>>>,
                  <<"list", <<StrSel(residual_highpass), IntSel(1)>>>>},
          b \in {<<"all", <<>>>>, <<"list", <<0>>>>},
          twidth \in TwidthArgs :
           ReconPyr(pyr_coeffs, l[1], l[2], b[1], b[2], twidth)

NextRoundTrip == Construct \/ ForwardAll \/ ReconOfForward

SpecRoundTrip == InitRoundTrip /\ [][NextRoundTrip]_vars

(***************************************************************************)
(* The orders specification: a one-scale pyramid of every order, forward   *)
(* for every key, then recon_pyr for every key.                            *)
(***************************************************************************)
InitOrders ==
    /\ args \in ArgsOver({<<16, 16>>}, {1}, MinOrder..MaxOrder)
    /\ Unbuilt

ReconAll ==
    /\ call.op = "forward"
    /\ call.outcome = "ok"
    /\ ReconPyr(pyr_coeffs, "all", <<>>, "all", <<>>, 1)

NextOrders == Construct \/ ForwardAll \/ ReconAll

SpecOrders == InitOrders /\ [][NextOrders]_vars

(***************************************************************************)
(* Claims about construction.                                              *)
(***************************************************************************)
\* k = floor(log2(n)), stated without computing it: 2^k <= n < 2^(k+1)
IsFloorLog2(n, k) == Pow2(k) <= n /\ n < Pow2(k + 1)

\* the exponents tried; 2^20 exceeds every image side of the model
Exponents == 0..20

MinSide == Min(args.image_shape[1], args.image_shape[2])

\* C2: an integer height above floor(log2(min(H,W))) - 2 makes the constructor
\* raise and leaves no pyramid; every integer height from 0 up to that maximum
\* is accepted and becomes num_scales.
C2_HeightLimit ==
    (call.op = "__init__" /\ ~args.height_auto) =>
        \A k \in Exponents :
            IsFloorLog2(MinSide, k) =>
                /\ args.height > k - 2 => (built = "raised" /\ self = NoPyramid)
                /\ (0 <= args.height /\ args.height <= k - 2) =>
                       (built = "ok" /\ self.num_scales = args.height)

C2_Witness ==
    /\ call.op = "__init__"
    /\ args.image_shape = <<8, 8>>
    /\ ~args.height_auto
    /\ args.height = 2
    /\ built = "raised"

\* C3: with height = 'auto', num_scales = floor(log2(min(H,W))) - 2, and
\* num_orientations = order + 1 for the order after clamping; a 256 x 256 image
\* with order 3 gives num_scales = 6 and num_orientations = 4.
C3_AutoHeight ==
    /\ (call.op = "__init__" /\ args.height_auto) =>
           /\ built = "ok"
           /\ \A k \in Exponents :
                  IsFloorLog2(MinSide, k) => self.num_scales = k - 2
    /\ built = "ok" => self.num_orientations = self.order + 1
    /\ (built = "ok" /\ args.height_auto /\ args.order = 3
            /\ args.image_shape = <<256, 256>>) =>
           (self.num_scales = 6 /\ self.num_orientations = 4)

C3_Witness ==
    /\ built = "ok"
    /\ args.height_auto
    /\ args.order = 3
    /\ args.image_shape = <<256, 256>>
    /\ self.num_scales = 6
    /\ self.num_orientations = 4

\* C4: the constructor never fails because of order: an order outside [1,15] is
\* clamped into [1,15] with a warning, so a built pyramid has 1 <= order <= 15
\* and 2 <= num_orientations <= 16.
C4_OrderClamped ==
    /\ built = "raised" => (~args.height_auto /\ args.height > MaxHt(args.image_shape))
    /\ built = "ok" =>
           /\ 1 <= self.order /\ self.order <= 15
           /\ 2 <= self.num_orientations /\ self.num_orientations <= 16
           /\ (1 <= args.order /\ args.order <= 15) =>
                  (self.order = args.order /\ OrderWarning \notin call.warnings)
           /\ args.order < 1 => (self.order = 1 /\ OrderWarning \in call.warnings)
           /\ args.order > 15 => (self.order = 15 /\ OrderWarning \in call.warnings)

C4_Witness ==
    /\ built = "ok"
    /\ args.order = 0
    /\ self.order = 1
    /\ self.num_orientations = 2
    /\ OrderWarning \in call.warnings

\* C5: for every twidth argument, values strictly between 0 and 1 included, the
\* transition width used to build the radial masks is an integer >= 1, a value
\* below 1 being reset to 1 with a warning.
C5_TwidthAtLeastOne ==
    built = "ok" =>
        /\ self.twidth >= 1
        /\ args.twidth < TwidthDen => (self.twidth = 1 /\ TwidthWarning \in call.warnings)

(***************************************************************************)
(* Claims about forward.                                                   *)
(***************************************************************************)
\* a selector that names a key of this pyramid
ValidSelector(sel) ==
    \/ sel.isint /\ 0 <= sel.n /\ sel.n < self.num_scales
    \/ ~sel.isint /\ sel.s \in {residual_highpass, residual_lowpass}

AllSelectors ==
    {IntSel(n) : n \in 0..(self.num_scales - 1)}
        \cup {StrSel(residual_highpass), StrSel(residual_lowpass)}

SelectorSet(scales) == {scales[j] : j \in 1..Len(scales)}

\* the keys a set S of selectors stands for, in the documented order
ExpectedKeys(S) ==
    LET E == IF S = {} THEN AllSelectors ELSE S
        bands(i) == [o \in 1..self.num_orientations |-> <<i, o - 1>>]
        F[n \in 0..Max(self.num_scales, 0)] ==
            IF n = 0 THEN <<>>
            ELSE F[n - 1] \o (IF IntSel(n - 1) \in E THEN bands(n - 1) ELSE <<>>)
    IN (IF StrSel(residual_highpass) \in E THEN <<(<<residual_highpass>>)>> ELSE <<>>)
           \o F[Max(self.num_scales, 0)]
           \o (IF StrSel(residual_lowpass) \in E THEN <<(<<residual_lowpass>>)>> ELSE <<>>)

ForwardCalled == call.op = "forward"

\* C6: for a list S of valid selectors, forward(x, S) returns the residuals named
\* in S and (s, o) for every integer s in S and every orientation o (an empty S
\* standing for every key), ordered residual_highpass, scales ascending with
\* orientations ascending, residual_lowpass: a function of the set of S alone.
C6_SelectedKeys ==
    (/\ ForwardCalled
     /\ ~NotAList(inp.scales_type)
     /\ inp.x.ndim = 4
     /\ \A sel \in SelectorSet(inp.scales) : ValidSelector(sel)) =>
        /\ call.outcome = "ok"
        /\ KeySeq(pyr_coeffs) = ExpectedKeys(SelectorSet(inp.scales))
        /\ Cardinality(Keys(pyr_coeffs)) = Len(pyr_coeffs)
        /\ \A sel \in SelectorSet(inp.scales) :
               /\ ~sel.isint => <<sel.s>> \in Keys(pyr_coeffs)
               /\ sel.isint => \A o \in 0..(self.num_orientations - 1) :
                                   <<sel.n, o>> \in Keys(pyr_coeffs)

C6_Witness ==
    /\ ForwardCalled
    /\ call.outcome = "ok"
    /\ inp.scales = <<StrSel(residual_lowpass), IntSel(0)>>
    /\ self.num_orientations = 3
    /\ KeySeq(pyr_coeffs) = <<(<<0, 0>>), (<<0, 1>>), (<<0, 2>>), (<<residual_lowpass>>)>>

\* C7: every key of forward(x, S) has the value it has in forward(x, []): the
\* low-pass spectrum is advanced from scale to scale whether or not a scale is
\* selected.
C7_PartialSelection ==
    (ForwardCalled /\ call.outcome = "ok") =>
        LET full == ForwardCoeffs(self, inp.x, self.scales)
        IN \A j \in 1..Len(pyr_coeffs) :
               \E n \in 1..Len(full) : full[n] = pyr_coeffs[j]

C7_Witness ==
    /\ ForwardCalled
    /\ call.outcome = "ok"
    /\ self.downsample
    /\ self.num_scales = 2
    /\ inp.scales = <<IntSel(1)>>
    /\ pyr_coeffs[1][1] = <<1, 0>>
    /\ pyr_coeffs[1][2].shape = <<8, 8>>

\* C8: forward(x, S) fails with a fatal error whenever S contains a selector
\* that is not a key of this pyramid, a string other than the two residual
\* names included.
C8_InvalidSelectorRaises ==
    (/\ ForwardCalled
     /\ ~NotAList(inp.scales_type)
     /\ \E sel \in SelectorSet(inp.scales) : ~ValidSelector(sel)) =>
        call.outcome # "ok"

\* C9: forward(x, S) raises and returns no dictionary when S holds an integer
\* that is negative or >= num_scales, when S is not a list or tuple, or when x
\* is not 4-dimensional, and it does so before any coefficient is computed.
C9_ForwardValidation ==
    (/\ ForwardCalled
     /\ \/ inp.scales_type \notin {"list", "tuple"}
        \/ inp.x.ndim # 4
        \/ \E sel \in SelectorSet(inp.scales) :
               sel.isint /\ (sel.n < 0 \/ sel.n >= self.num_scales)) =>
        /\ call.outcome \in {"Exception", "AssertionError"}
        /\ pyr_coeffs = <<>>
        /\ call.computed = 0
        /\ self.pyr_size = <<>>

C9_Witness ==
    /\ ForwardCalled
    /\ inp.scales_type = "list"
    /\ inp.x.ndim = 4
    /\ inp.scales = <<IntSel(0), IntSel(-1)>>
    /\ call.outcome = "AssertionError"
    /\ pyr_coeffs = <<>>

(***************************************************************************)
(* Claims about recon_pyr.                                                 *)
(***************************************************************************)
\* every key of the full pyramid
FullKeys ==
    {<<residual_highpass>>, <<residual_lowpass>>}
        \cup {<<i, o>> : i \in 0..(self.num_scales - 1),
                         o \in 0..(self.num_orientations - 1)}

ReconCalled == call.op = "recon_pyr"

\* C10: recon_pyr raises whenever the dictionary passed to it lacks a key of
\* the full pyramid, whatever the levels and bands selectors, even when they
\* name only keys that are present.
C10_IncompleteRaises ==
    (ReconCalled /\ ~(FullKeys \subseteq inp.keys)) =>
        (call.outcome = "Exception" /\ recon = NoRecon)

C10_Witness ==
    /\ ReconCalled
    /\ inp.keys = FullKeys \ {<<0, 1>>}
    /\ inp.levels_type = "list"
    /\ inp.levels = <<StrSel(residual_lowpass)>>
    /\ inp.bands_type = "list"
    /\ inp.bands = <<0>>
    /\ call.outcome = "Exception"

\* the keys whose values contribute to the spectrum recon_pyr returned
Contributing == {recon.terms[j].key : j \in 1..Len(recon.terms)}

\* the bands the bands argument names ("all": every orientation)
BandsNamed ==
    IF inp.bands_type = "all" THEN 0..(self.num_orientations - 1)
    ELSE {inp.bands[j] : j \in 1..Len(inp.bands)}

\* the integer levels the levels argument names ("all": every scale)
ScalesNamed ==
    IF inp.levels_type = "all" THEN 0..(self.num_scales - 1)
    ELSE {inp.levels[j].n : j \in {i \in 1..Len(inp.levels) : inp.levels[i].isint}}

\* the residuals the levels argument names ("all": both)
ResidualsNamed ==
    IF inp.levels_type = "all" THEN {residual_highpass, residual_lowpass}
    ELSE {inp.levels[j].s : j \in {i \in 1..Len(inp.levels) : ~inp.levels[i].isint}}
             \cap {residual_highpass, residual_lowpass}

\* the sub-bands levels and bands select
KeysNamed ==
    {<<r>> : r \in ResidualsNamed} \cup {<<l, b>> : l \in ScalesNamed, b \in BandsNamed}

LevelNamedOutOfRange == \E l \in ScalesNamed : l < 0 \/ l >= self.num_scales
BandNamedOutOfRange == \E b \in BandsNamed : b < 0 \/ b >= self.num_orientations

\* C11: with a complete dictionary, recon_pyr raises if levels holds an integer
\* outside [0, num_scales-1] or bands one outside [0, num_orientations-1]; the
\* literal 'all' is accepted for either and stands for every valid level (both
\* residuals and all scales) or every orientation.
C11_SelectorsValidated ==
    (ReconCalled /\ FullKeys \subseteq inp.keys) =>
        /\ (LevelNamedOutOfRange \/ BandNamedOutOfRange) =>
               (call.outcome = "AssertionError" /\ recon = NoRecon)
        /\ (inp.levels_type = "all" /\ ~BandNamedOutOfRange) =>
               /\ call.outcome = "ok"
               /\ Contributing =
                      {<<residual_highpass>>, <<residual_lowpass>>}
                          \cup {<<l, b>> : l \in 0..(self.num_scales - 1), b \in BandsNamed}
        /\ (inp.bands_type = "all" /\ ~LevelNamedOutOfRange) =>
               /\ call.outcome = "ok"
               /\ \A l \in ScalesNamed, b \in 0..(self.num_orientations - 1) :
                      <<l, b>> \in Contributing

\* C12: the sub-bands that contribute to the output of recon_pyr(d, levels,
\* bands) are exactly the residuals named in levels and (l, b) for every integer
\* l in levels and every b in bands, each of them once; nothing else contributes
\* and bands never removes a residual.
C12_ContributingKeys ==
    (ReconCalled /\ call.outcome = "ok") =>
        /\ Contributing = KeysNamed
        /\ Len(recon.terms) = Cardinality(KeysNamed)

\* C13: for a complete dictionary the outcome of recon_pyr is the one obtained
\* on a pyramid object that recorded every size in an earlier forward call,
\* whatever forward calls this object has seen.
C13_NoForwardMetadata ==
    (ReconCalled /\ FullKeys \subseteq inp.keys) =>
        LET seen == [self EXCEPT !.pyr_size = RecordSizes(<<>>, inp.coeffs)]
            err == ReconRaises(seen, inp.keys, inp.levels_type, inp.levels,
                               inp.bands_type, inp.bands)
        IN /\ call.outcome = (IF err = "" THEN "ok" ELSE err)
           /\ recon = IF err = "" 
                      THEN Reconstruction(seen, inp.coeffs,
                               ReconKeys(seen, inp.levels_type, inp.levels,
                                         inp.bands_type, inp.bands))
                      ELSE NoRecon

\* both residuals were recorded in pyr_size by earlier forward calls on this object
ResidualsRecorded ==
    {<<residual_highpass>>, <<residual_lowpass>>} \subseteq DOMAIN self.pyr_size

\* What remains of C11, C12 and C13 on an object whose pyr_size holds both
\* residuals: there the three statements hold.
RecordedSelectorsValidated == ResidualsRecorded => C11_SelectorsValidated
RecordedContributingKeys == ResidualsRecorded => C12_ContributingKeys
RecordedNoForwardMetadata == ResidualsRecorded => C13_NoForwardMetadata

(***************************************************************************)
(* Claims about convert_pyr_to_tensor and convert_tensor_to_pyr.           *)
(***************************************************************************)
PackCalled == call.op = "convert_pyr_to_tensor"
UnpackCalled == call.op = "convert_tensor_to_pyr"

\* the unpacked band b holds channel ch of the tensor t, value for value: the
\* channel itself, the channel cast to the 32-bit floats it already held, or
\* its real and imaginary parts put back together
SameChannel(b, t, ch) ==
    \/ b.kind = "channel" /\ b.parts = <<Channel(t, ch, "whole")>>
    \/ b.kind = "float" /\ b.parts = <<Channel(t, ch, "whole")>>
           /\ ~IsComplexTensor(t) /\ ~t.double
    \/ b.kind = "complex" /\ b.parts = <<Channel(t, ch, "real"), Channel(t, ch, "imag")>>

SameValue(v, t) ==
    /\ Len(v) = t.nch
    /\ \A ch \in 0..(t.nch - 1) : SameChannel(v[ch + 1], t, ch)

\* C14: for a dictionary d returned by forward on a pyramid built with
\* downsample=False, and split_complex either way, convert_pyr_to_tensor
\* succeeds and convert_tensor_to_pyr on its result returns a dictionary with the
\* keys of d and, for every key, the value it has in d.
C14_PackUnpackRoundTrip ==
    (~self.downsample /\ pyr_coeffs # <<>>) =>
        /\ PackCalled => call.outcome = "ok"
        /\ UnpackCalled =>
               /\ call.outcome = "ok"
               /\ KeySeq(unpacked) = KeySeq(pyr_coeffs)
               /\ \A j \in 1..Len(pyr_coeffs) :
                      SameValue(unpacked[j][2], pyr_coeffs[j][2])

\* What remains of C14 for 32-bit images when the bands are complex or
\* split_complex is False.
SplitComplexRoundTrip ==
    ((self.is_complex \/ ~inp.split_complex)
        /\ \A j \in 1..Len(pyr_coeffs) : ~pyr_coeffs[j][2].double) =>
        C14_PackUnpackRoundTrip

\* the block of image channel ch in the documented layout
ExpectedBlock(d, ch, split_complex) ==
    LET one(k) == <<Channel(d[Value(d, k)][2], ch, "whole")>>
        F[j \in 0..Len(d)] ==
            IF j = 0 THEN <<>>
            ELSE IF Len(d[j][1]) = 1 THEN F[j - 1]
            ELSE IF IsComplexTensor(d[j][2]) /\ split_complex
            THEN F[j - 1] \o <<Channel(d[j][2], ch, "real"), Channel(d[j][2], ch, "imag")>>
            ELSE F[j - 1] \o <<Channel(d[j][2], ch, "whole")>>
    IN (IF <<residual_highpass>> \in Keys(d) THEN one(<<residual_highpass>>) ELSE <<>>)
           \o F[Len(d)]
           \o (IF <<residual_lowpass>> \in Keys(d) THEN one(<<residual_lowpass>>) ELSE <<>>)

\* C15: the packed tensor holds one contiguous block per image channel, in
\* turn; a block is residual_highpass if present, the oriented bands in
\* dictionary order (a complex band with split_complex=True as two adjacent
\* channels, real then imaginary, otherwise one channel), then residual_lowpass
\* if present; pyr_info is (num_channels, split_complex, key tuple).
C15_ChannelLayout ==
    (PackCalled /\ call.outcome = "ok") =>
        LET d == inp.coeffs
            nch == d[1][2].nch
            size == Len(ExpectedBlock(d, 0, inp.split_complex))
            channels == packed.pyr_tensor.channels
        IN /\ Len(channels) = nch * size
           /\ \A ch \in 0..(nch - 1) :
                  SubSeq(channels, ch * size + 1, (ch + 1) * size)
                      = ExpectedBlock(d, ch, inp.split_complex)
           /\ packed.pyr_info = <<nch, inp.split_complex, KeySeq(d)>>

C15_Witness ==
    /\ PackCalled
    /\ call.outcome = "ok"
    /\ self.is_complex
    /\ inp.split_complex
    /\ KeySeq(inp.coeffs) = <<(<<residual_highpass>>), (<<0, 0>>), (<<0, 1>>)>>
    /\ inp.coeffs[1][2].nch = 2
    /\ Len(packed.pyr_tensor.channels) = 10
    /\ packed.pyr_tensor.channels[7].part = "real"
    /\ packed.pyr_tensor.channels[7].ch = 1
    /\ packed.pyr_tensor.channels[8].part = "imag"

\* C16: convert_pyr_to_tensor raises, and returns no tensor, whenever two keys
\* of the dictionary have different spatial shapes.
C16_MismatchedShapesRaise ==
    (PackCalled /\ \E i, j \in 1..Len(inp.coeffs) :
                       inp.coeffs[i][2].shape # inp.coeffs[j][2].shape) =>
        (call.outcome = "Exception" /\ packed = NoPacked)

C16_Witness ==
    /\ PackCalled
    /\ self.downsample
    /\ KeySeq(inp.coeffs) = <<(<<0, 0>>), (<<0, 1>>), (<<1, 0>>), (<<1, 1>>)>>
    /\ inp.coeffs[1][2].shape = <<16, 16>>
    /\ inp.coeffs[3][2].shape = <<8, 8>>
    /\ call.outcome = "Exception"
    /\ packed = NoPacked

(***************************************************************************)
(* Claims about steer_coeffs.                                              *)
(***************************************************************************)
SteerCalled == call.op = "steer_coeffs"

\* some oriented band of the dictionary passed in is complex-valued
ComplexCoefficients ==
    \E j \in 1..Len(inp.coeffs) :
        Len(inp.coeffs[j][1]) = 2 /\ IsComplexTensor(inp.coeffs[j][2])

\* C17: steer_coeffs raises and returns nothing when the coefficients passed to
\* it are complex-valued (AssertionError when (0, 0) is among them); it
\* proceeds only for real-valued coefficients.
C17_ComplexSteeringRaises ==
    SteerCalled =>
        /\ ComplexCoefficients => (call.outcome # "ok" /\ steered = NoSteered)
        /\ (ComplexCoefficients /\ <<0, 0>> \in inp.keys) =>
               call.outcome = "AssertionError"
        /\ call.outcome = "ok" => ~ComplexCoefficients

C17_Witness ==
    /\ SteerCalled
    /\ self.is_complex
    /\ inp.keys = FullKeys
    /\ self.num_scales = 2
    /\ ComplexCoefficients
    /\ call.outcome = "AssertionError"
    /\ steered = NoSteered

\* C18: for real coefficients and a list of n angles, the two dictionaries
\* steer_coeffs returns have the same key set: (s, j) for every scale s in
\* 0..num_scales-1 and every index j in 0..n-1, and no residual key.
C18_SteeredKeys ==
    (SteerCalled /\ call.outcome = "ok") =>
        LET expected == {<<s, j>> : s \in 0..(self.num_scales - 1),
                                    j \in 0..(inp.angles - 1)}
        IN /\ Keys(steered.resteered_coeffs) = expected
           /\ Keys(steered.resteering_weights) = expected

\* What remains of C18: the weights are keyed (s, j), the coefficients
\* (s, num_orientations + j), and neither dictionary has a residual key.
SteeredKeysAsWritten ==
    (SteerCalled /\ call.outcome = "ok") =>
        /\ Keys(steered.resteering_weights) =
               {<<s, j>> : s \in 0..(self.num_scales - 1), j \in 0..(inp.angles - 1)}
        /\ Keys(steered.resteered_coeffs) =
               {<<s, self.num_orientations + j>> :
                    s \in 0..(self.num_scales - 1), j \in 0..(inp.angles - 1)}

(***************************************************************************)
(* Claims about callers sharing a pyramid.                                 *)
(***************************************************************************)
\* the masks and the subsampling indices of a pyramid object
Masks(p) ==
    <<p.lo0mask, p.hi0mask, p.himasks, p.lomasks, p.anglemasks, p.anglemasks_recon,
      p.loindices>>

\* C20: whatever the interleaving of the callers' forward, recon_pyr,
\* convert_pyr_to_tensor, convert_tensor_to_pyr and steer_coeffs calls, every
\* mask and index of the pyramid keeps the value construction gave it, and a
\* forward call that has ended raised or returned what it would have alone on
\* the freshly built pyramid.
C20_MasksReadOnly ==
    built = "ok" =>
        LET fresh == NewPyramid(args)
        IN /\ Masks(self) = Masks(fresh)
           /\ \A c \in DOMAIN callers :
                  (callers[c].pc = "done" /\ callers[c].op = "forward") =>
                      LET r == callers[c]
                          err == ForwardRaises(fresh, r.x, "list", r.scales_given)
                      IN /\ r.outcome = (IF err = "" THEN "ok" ELSE err)
                         /\ err = "" =>
                                r.result = ForwardCoeffs(fresh, r.x,
                                               EffectiveScales(fresh, r.scales_given))

C20_Witness ==
    /\ built = "ok"
    /\ self.num_scales = 1
    /\ callers[1].pc = "done"
    /\ callers[1].op = "forward"
    /\ callers[1].outcome = "ok"
    /\ Len(callers[1].result) = 4
    /\ callers[2].pc = "scale"
    /\ callers[2].op = "forward"
    /\ callers[2].i = 1
    /\ callers[2].x.id = 2
    /\ DOMAIN self.pyr_size = FullKeys

(***************************************************************************)
(* Claims about odd image sides.                                           *)
(***************************************************************************)
OddShape == args.image_shape[1] % 2 # 0 \/ args.image_shape[2] % 2 # 0

\* C21: an odd image height or width is not an error: the constructor warns
\* and, unless the height is above the limit, completes; forward with valid
\* arguments on such a pyramid succeeds, combines only arrays of one shape and
\* returns every requested key.
C21_OddShapeAccepted ==
    OddShape =>
        /\ call.op = "__init__" =>
               /\ OddWarning \in call.warnings
               /\ built = "raised" =>
                      (~args.height_auto /\ args.height > MaxHt(args.image_shape))
        /\ (/\ ForwardCalled
            /\ ~NotAList(inp.scales_type)
            /\ inp.x.ndim = 4
            /\ \A sel \in SelectorSet(inp.scales) : ValidSelector(sel)) =>
               /\ call.outcome = "ok"
               /\ KeySeq(pyr_coeffs) = ExpectedKeys(SelectorSet(inp.scales))
               /\ \A j \in 1..Len(pyr_coeffs) : pyr_coeffs[j][2].ok

C21_Witness ==
    /\ ForwardCalled
    /\ call.outcome = "ok"
    /\ args.image_shape = <<9, 16>>
    /\ self.downsample
    /\ self.num_scales = 1
    /\ inp.scales = <<>>
    /\ Len(pyr_coeffs) = 2 + self.num_orientations
    /\ pyr_coeffs[Len(pyr_coeffs)][1] = <<residual_lowpass>>
    /\ pyr_coeffs[Len(pyr_coeffs)][2].shape = <<5, 8>>

(***************************************************************************)
(* Claims about shapes.                                                    *)
(***************************************************************************)
\* d halved s times, rounding up each time
RECURSIVE Halved(_, _)
Halved(d, s) == IF s <= 0 THEN d ELSE Halved(CeilDiv(d, 2), s - 1)

\* the documented shape of the bands of scale s
ShapeAt(s) ==
    IF self.downsample
    THEN <<Halved(self.image_shape[1], s), Halved(self.image_shape[2], s)>>
    ELSE self.image_shape

\* the documented shape of the value of key k
ShapeOf(k) ==
    IF k = <<residual_highpass>> THEN self.image_shape
    ELSE IF k = <<residual_lowpass>> THEN ShapeAt(self.num_scales)
    ELSE ShapeAt(k[1])

\* C22: with downsample, band (s, o) has shape (h_s, w_s), h_0 = H, w_0 = W,
\* h_(s+1) = ceil(h_s / 2), w_(s+1) = ceil(w_s / 2), residual_highpass has shape
\* (H, W) and residual_lowpass (h_num_scales, w_num_scales); without downsample
\* every key has shape (H, W); pyr_size records for each key the shape of the
\* tensor returned for it.
C22_BandShapes ==
    (ForwardCalled /\ call.outcome = "ok") =>
        /\ DOMAIN self.pyr_size = Keys(pyr_coeffs)
        /\ \A j \in 1..Len(pyr_coeffs) :
               /\ pyr_coeffs[j][2].shape = ShapeOf(pyr_coeffs[j][1])
               /\ self.pyr_size[pyr_coeffs[j][1]] = pyr_coeffs[j][2].shape

C22_Witness ==
    /\ ForwardCalled
    /\ call.outcome = "ok"
    /\ self.downsample
    /\ args.image_shape = <<9, 16>>
    /\ self.num_scales = 1
    /\ inp.scales = <<StrSel(residual_lowpass), IntSel(0)>>
    /\ self.pyr_size[<<0, 0>>] = <<9, 16>>
    /\ self.pyr_size[<<residual_lowpass>>] = <<5, 8>>

(***************************************************************************)
(* Claims about the subsampling box.                                       *)
(***************************************************************************)
\* C23: for every grid dimension d >= 1 the box computed at construction has
\* 0 <= start < end <= d and end - start = ceil(d / 2), and keeps the DC bin
\* centred: start + floor((end - start) / 2) = floor(d / 2); the cropped grid
\* has end - start entries.
C23_BoxCentred ==
    mock.from # <<0, 0>> =>
        \A a \in 1..2 :
            LET d == mock.from[a]
                start == mock.lostart[a]
                end == mock.loend[a]
            IN /\ 0 <= start /\ start < end /\ end <= d
               /\ 2 * (end - start) \in {d, d + 1}
               /\ start + ((end - start) \div 2) = d \div 2
               /\ mock.dims[a] = end - start

C23_Witness ==
    /\ mock.from = <<7, 12>>
    /\ mock.lostart = <<1, 3>>
    /\ mock.loend = <<5, 9>>
    /\ mock.dims = <<4, 6>>

(***************************************************************************)
(* Claims about the mask grids.                                            *)
(***************************************************************************)
\* the number of entries of box b on each axis
BoxSize(b) == <<b[2][1] - b[1][1], b[2][2] - b[1][2]>>

\* the five per-scale lists have n entries each, every per-scale list of angle
\* masks has num_orientations entries, and every mask has the shape of the
\* grid it is multiplied with
MaskGrids(n) ==
    /\ Len(self.himasks) = n
    /\ Len(self.lomasks) = n
    /\ Len(self.loindices) = n
    /\ Len(self.anglemasks) = n
    /\ Len(self.anglemasks_recon) = n
    /\ \A s \in 1..n :
           /\ Len(self.anglemasks[s]) = self.num_orientations
           /\ Len(self.anglemasks_recon[s]) = self.num_orientations
           /\ self.himasks[s].shape = ShapeAt(s - 1)
           /\ \A o \in 1..self.num_orientations :
                  /\ self.anglemasks[s][o].shape = ShapeAt(s - 1)
                  /\ self.anglemasks_recon[s][o].shape = ShapeAt(s - 1)
           /\ self.lomasks[s].shape = BoxSize(self.loindices[s])
           /\ self.lomasks[s].shape = ShapeAt(IF self.downsample THEN s ELSE 0)

\* forward and recon_pyr on a complete dictionary index no mask out of range
\* and combine only arrays of one shape
NoShapeError ==
    /\ (ForwardCalled /\ call.outcome = "ok") =>
           \A j \in 1..Len(pyr_coeffs) : pyr_coeffs[j][2].ok
    /\ (ReconCalled /\ FullKeys \subseteq inp.keys) =>
           /\ call.outcome # "IndexError"
           /\ call.outcome = "ok" => recon.ok

\* C24: after construction the lists of himasks, lomasks, boxes, anglemasks and
\* anglemasks_recon have num_scales entries each and each per-scale angle-mask
\* list has num_orientations entries; himask[s] and anglemask[s][o] have the
\* shape of the spectrum entering scale s, lomask[s] the shape of the box of
\* scale s, into which reconstruction places the coarser spectrum; so no
\* forward or recon_pyr call on a complete dictionary indexes a mask out of
\* range or combines arrays of different shapes.
C24_MaskGridsAligned ==
    built = "ok" => (MaskGrids(self.num_scales) /\ NoShapeError)

\* what holds of C24 in the code: the same for the pyramids whose num_scales is
\* not negative
MaskGridsAlignedFromZero ==
    (built = "ok" /\ self.num_scales >= 0) => (MaskGrids(self.num_scales) /\ NoShapeError)

(***************************************************************************)
(* Claims about gains.                                                     *)
(***************************************************************************)
\* how many times operation f occurs in ops
Count(ops, f) == Cardinality({j \in 1..Len(ops) : ops[j].f = f})

\* the documented number of doublings on the way to key k: one per scale
\* crossed, the scales being 0 .. num_scales - 1
Doublings(k) ==
    IF self.downsample \/ self.tight_frame \/ k = <<residual_highpass>> THEN 0
    ELSE IF k = <<residual_lowpass>> THEN Cardinality(0..(self.num_scales - 1))
    ELSE k[1]

\* the documented number of divisions by sqrt(2) on the way to key k
Root2s(k) == IF self.tight_frame /\ self.is_complex /\ Len(k) = 2 THEN 1 ELSE 0

\* C25: for every configuration and every key the scalar gains of forward and
\* recon_pyr cancel: without downsample and without tight_frame forward doubles
\* the low-pass branch once per scale (s times before scale s, num_scales times
\* before the low-pass residual) and reconstruction halves it once per scale,
\* and neither does so in any other configuration; with tight_frame and
\* is_complex forward divides each oriented band by sqrt(2) and reconstruction
\* multiplies it by sqrt(2), and neither does so otherwise.
C25_GainsCancel ==
    /\ (ForwardCalled /\ call.outcome = "ok") =>
           \A j \in 1..Len(pyr_coeffs) :
               /\ Count(pyr_coeffs[j][2].ops, "mul2") = Doublings(pyr_coeffs[j][1])
               /\ Count(pyr_coeffs[j][2].ops, "div_sqrt2") = Root2s(pyr_coeffs[j][1])
    /\ (ReconCalled /\ call.outcome = "ok") =>
           \A j \in 1..Len(recon.terms) :
               LET k == recon.terms[j].key
                   given == inp.coeffs[Value(inp.coeffs, k)][2].ops
                   back == recon.terms[j].ops
               IN /\ Count(back, "div2") = Doublings(k)
                  /\ Count(back, "mul_sqrt2") = Root2s(k)
                  /\ Count(back, "mul2") = 0
                  /\ Count(back, "div_sqrt2") = 0
                  /\ Count(given, "mul2") = Count(back, "div2")
                  /\ Count(given, "div_sqrt2") = Count(back, "mul_sqrt2")

C25_Witness ==
    /\ ReconCalled
    /\ call.outcome = "ok"
    /\ ~self.downsample
    /\ ~self.tight_frame
    /\ self.num_scales = 2
    /\ inp.levels_type = "all"
    /\ \E j \in 1..Len(recon.terms) :
           /\ recon.terms[j].key = <<residual_lowpass>>
           /\ Count(recon.terms[j].ops, "div2") = 2
           /\ Count(inp.coeffs[Value(inp.coeffs, <<residual_lowpass>>)][2].ops, "mul2") = 2

(***************************************************************************)
(* Claims about the complex constant.                                      *)
(***************************************************************************)
\* the complex conjugate
Conj(a) == <<a[1], -a[2]>>

\* the complex constants among the operations ops, as <<sign, order>>
ConstsIn(ops) == {<<ops[j].i, ops[j].b>> : j \in {n \in 1..Len(ops) : ops[n].f = "complex_const"}}

\* C26: for every order in 1..15 the constant forward applies to an oriented
\* band is (-i)^order and the one reconstruction applies is (+i)^order; they
\* are complex conjugates and their product is exactly 1.
C26_ConstantsCancel ==
    /\ built = "ok" =>
           /\ ComplexConst(1, self.order) = Conj(ComplexConst(-1, self.order))
           /\ CMul(ComplexConst(-1, self.order), ComplexConst(1, self.order)) = <<1, 0>>
    /\ (ForwardCalled /\ call.outcome = "ok") =>
           \A j \in 1..Len(pyr_coeffs) :
               ConstsIn(pyr_coeffs[j][2].ops) =
                   IF Len(pyr_coeffs[j][1]) = 2 THEN {<<-1, self.order>>} ELSE {}
    /\ (ReconCalled /\ call.outcome = "ok") =>
           \A j \in 1..Len(recon.terms) :
               ConstsIn(recon.terms[j].ops) =
                   IF Len(recon.terms[j].key) = 2 THEN {<<1, self.order>>} ELSE {}

C26_Witness ==
    /\ ReconCalled
    /\ call.outcome = "ok"
    /\ self.order = 7
    /\ ComplexConst(-1, self.order) = <<0, 1>>
    /\ ComplexConst(1, self.order) = <<0, -1>>
    /\ \E j \in 1..Len(recon.terms) : recon.terms[j].key = <<0, 7>>

(***************************************************************************)
(* Claims about the angle masks.                                           *)
(***************************************************************************)
\* the angular profile behind a mask: everything but the list it is kept in
Profile(m) == [scale |-> m.scale, band |-> m.band, shape |-> m.shape,
               factor |-> m.factor, truncated |-> m.truncated]

\* C27: for a real pyramid the forward and the reconstruction angle mask of
\* every scale and orientation are identical; for a complex pyramid the forward
\* mask is twice the reconstruction profile, truncated to angle offsets below
\* pi/2, while the reconstruction mask is neither doubled nor truncated.
C27_AngleMasks ==
    built = "ok" =>
        \A s \in 1..Len(self.anglemasks) :
            \A o \in 1..Len(self.anglemasks[s]) :
                LET fwd == self.anglemasks[s][o]
                    rec == self.anglemasks_recon[s][o]
                IN /\ rec.factor = 1 /\ ~rec.truncated
                   /\ ~self.is_complex => Profile(fwd) = Profile(rec)
                   /\ self.is_complex =>
                          Profile(fwd) = [Profile(rec) EXCEPT !.factor = 2 * rec.factor,
                                                              !.truncated = TRUE]

C27_Witness ==
    /\ built = "ok"
    /\ self.is_complex
    /\ self.num_scales = 2
    /\ self.order = 3
    /\ self.anglemasks[2][4].factor = 2
    /\ self.anglemasks[2][4].truncated
    /\ self.anglemasks_recon[2][4].factor = 1
    /\ ~self.anglemasks_recon[2][4].truncated

(***************************************************************************)
(* Claims about the recursion.                                             *)
(***************************************************************************)
\* how coarse the scale of key k is: the low-pass residual is the coarsest
Coarseness(k) ==
    IF k = <<residual_lowpass>> THEN self.num_scales
    ELSE IF k = <<residual_highpass>> THEN -1
    ELSE k[1]

\* the recursion ran once for each scale 0, 1, ..., num_scales in that order and
\* combined coarse to fine
RanCoarseToFine ==
    /\ call.outcome = "ok"
    /\ recon.invoked = Range(self.num_scales + 1)
    /\ Len(recon.invoked) = self.num_scales + 1
    /\ \A j, n \in 1..Len(recon.terms) :
           j < n => Coarseness(recon.terms[j].key) >= Coarseness(recon.terms[n].key)

\* a recon_pyr call whose arguments are valid for this pyramid
ValidReconCall ==
    /\ ReconCalled
    /\ FullKeys \subseteq inp.keys
    /\ ~LevelNamedOutOfRange
    /\ ~BandNamedOutOfRange

\* C28: for every built pyramid the recursive reconstruction started at scale
\* 0 ends after exactly num_scales + 1 invocations, one for each scale 0, 1,
\* ..., num_scales in that order, and combines coarse to fine: the low-pass
\* residual first, the contribution of scale s only after those of every
\* coarser scale.
C28_RecursionDepth == ValidReconCall => RanCoarseToFine

\* what holds of C28 in the code: the same for the pyramids whose num_scales is
\* not negative
RecursionDepthFromZero == (ValidReconCall /\ self.num_scales >= 0) => RanCoarseToFine

(***************************************************************************)
(* Claims about recon_pyr's twidth.                                        *)
(***************************************************************************)
\* the outcome and the image recon_pyr gives for the dictionary, levels and
\* bands of the last call, with the masks of the object
OutcomeWhateverTwidth ==
    LET err == ReconRaises(self, inp.keys, inp.levels_type, inp.levels,
                           inp.bands_type, inp.bands)
    IN IF err # "" THEN <<err, NoRecon>>
       ELSE <<"ok", Reconstruction(self, inp.coeffs,
                        ReconKeys(self, inp.levels_type, inp.levels,
                                  inp.bands_type, inp.bands))>>

\* the operations and masks applied to the terms of the reconstruction
OperationsUsed ==
    UNION {{recon.terms[j].ops[n].f : n \in 1..Len(recon.terms[j].ops)} :
              j \in 1..Len(recon.terms)}

ResidualShape ==
    IF Len(self.lomasks) = 0 THEN self.image_shape
    ELSE self.lomasks[Len(self.lomasks)].shape

\* num_scales is at most floor(log2(min(H, W))) - 2
AtMostMaxHeight ==
    \A k \in Exponents : IsFloorLog2(MinSide, k) => self.num_scales <= k - 2

\* C30: every built pyramid has 0 <= num_scales <= floor(log2(min(H,W))) - 2: a
\* negative height, or height = 'auto' on an image whose smaller side is below
\* 4, is rejected by the constructor; so the low-pass residual of a built
\* pyramid has at least 4 pixels on each side.
C30_ScalesInRange ==
    /\ built = "ok" =>
           /\ 0 <= self.num_scales
           /\ AtMostMaxHeight
           /\ ResidualShape[1] >= 4 /\ ResidualShape[2] >= 4
    /\ (/\ call.op = "__init__"
        /\ \/ ~args.height_auto /\ args.height < 0
           \/ args.height_auto /\ MinSide < 4) => built = "raised"

\* what holds of C30 in the code: the upper limit, and the size of the residual
\* when num_scales is not negative
ScalesBoundedAbove ==
    built = "ok" =>
        /\ AtMostMaxHeight
        /\ self.num_scales >= 0 => (ResidualShape[1] >= 4 /\ ResidualShape[2] >= 4)

====
